---- MODULE Spec2Model ----
(***************************************************************************)
(* Model of the request validation core of the neng-ai-chat-bot gateway:   *)
(* the fixed-window rate limiter, the prompt validator, the file validator *)
(* and the response formatter (middleware/validation.js,                   *)
(* utils/fileValidation.js, utils/responseHandler.js).                     *)
(***************************************************************************)
EXTENDS Integers, Sequences, FiniteSets, TLC

VARIABLES
    maxRequests,   \* createRateLimiter: closure parameter maxRequests
    timeWindow,    \* createRateLimiter: closure parameter timeWindow
    requests,      \* createRateLimiter: the Map clientId -> {count, resetTime}
    now,           \* Date.now()
    rlLog,         \* history of limiter invocations (one record per call)
    body,          \* validatePrompt: req.body
    promptIn,      \* validatePrompt: the prompt the request arrived with
    res,           \* validatePrompt: the response sent (Null while none)
    nextCalls,     \* validatePrompt: number of calls of next()
    vpPc,          \* validatePrompt: "start" before the call, "done" after
    file,          \* validateFile: argument file
    fileType,      \* validateFile: argument fileType
    vfResult,      \* validateFile: the value returned (Null before the call)
    vfPc,          \* validateFile: "start" before the call, "done" after
    nodeEnv,       \* process.env.NODE_ENV
    rhCall,        \* response handler: the function called and its arguments
    rhOut,         \* response handler: the response sent (Null before the call)
    rhPc,          \* response handler: "start" before the call, "done" after
    sbBodyIn,      \* sanitizeRequestBody: req.body before the call
    sbBody,        \* sanitizeRequestBody: req.body
    sbNext,        \* sanitizeRequestBody: number of calls of next()
    sbThrew,       \* sanitizeRequestBody: the exception thrown (Null when none)
    sbPc,          \* sanitizeRequestBody: "start" before the call, "done" after
    handler,       \* request: the controller function the route ends in
    request,       \* request: the req object (body, file, headers, address)
    sys,           \* request: what process.uptime() gives, or that it throws
    pc,            \* request: the stage the request is at
    sent,          \* request: the responses sent on res, in order
    upCalls,       \* request: the calls made to the upstream service, in order
    upResults,     \* request: what those calls settled with, in order
    prepCalls,     \* request: number of calls of prepareFileForAPI
    escaped,       \* request: the exception that left the handler (Null: none)
    nextError,     \* request: the error handed to next(error) (Null: none)
    trace,         \* request: the stages the request went through, in order
    ccReq,         \* concurrent requests: the req object of each
    ccPc,          \* concurrent requests: the stage each is at
    ccSent,        \* concurrent requests: the responses sent to each
    ccUp,          \* concurrent requests: the upstream calls made for each
    ccLog,         \* concurrent requests: the limiter invocations, in order
    pmFn,          \* monitored call: how the wrapped function settles
    pmArgs,        \* monitored call: the arguments the wrapper is called with
    pmThis,        \* monitored call: the receiver the wrapper is called on
    pmCalls,       \* monitored call: the calls of the wrapped function
    pmResult,      \* monitored call: how the wrapper settles (Null: not yet)
    pmPc,          \* monitored call: "start" before the call, "done" after
    conversationHistory,  \* conversation: the module's history array
    isPersonalitySet,     \* conversation: the module's personality flag
    cvPayload,     \* conversation: the payload of each call of conversation
    cvPc,          \* conversation: "start", "awaiting" (the upstream) or "done"
    cvUp,          \* conversation: how the upstream call settled (Null: not yet)
    cvResult       \* conversation: how each call settled (Null: not yet)

vars == <<maxRequests, timeWindow, requests, now, rlLog,
          body, promptIn, res, nextCalls, vpPc,
          file, fileType, vfResult, vfPc,
          nodeEnv, rhCall, rhOut, rhPc,
          sbBodyIn, sbBody, sbNext, sbThrew, sbPc,
          handler, request, sys, pc, sent, upCalls, upResults, prepCalls, escaped,
          nextError, trace,
          ccReq, ccPc, ccSent, ccUp, ccLog,
          pmFn, pmArgs, pmThis, pmCalls, pmResult, pmPc,
          conversationHistory, isPersonalitySet, cvPayload, cvPc, cvUp, cvResult>>

cvVars == <<conversationHistory, isPersonalitySet, cvPayload, cvPc, cvUp, cvResult>>

pmVars == <<pmFn, pmArgs, pmThis, pmCalls, pmResult, pmPc>>

ccVars == <<ccReq, ccPc, ccSent, ccUp, ccLog>>

rqVars == <<handler, request, sys, pc, sent, upCalls, upResults, prepCalls, escaped,
          nextError, trace>>

sbVars == <<sbBodyIn, sbBody, sbNext, sbThrew, sbPc>>

rhVars == <<rhCall, rhOut, rhPc>>

vfVars == <<file, fileType, vfResult, vfPc>>

rlVars == <<maxRequests, timeWindow, requests, now, rlLog>>

vpVars == <<body, promptIn, res, nextCalls, vpPc>>

\* the variable groups an action of the groups in S leaves unchanged
Frame(S) ==
    /\ IF "rl" \in S THEN TRUE ELSE UNCHANGED rlVars
    /\ IF "vp" \in S THEN TRUE ELSE UNCHANGED vpVars
    /\ IF "vf" \in S THEN TRUE ELSE UNCHANGED vfVars
    /\ IF "env" \in S THEN TRUE ELSE UNCHANGED nodeEnv
    /\ IF "rh" \in S THEN TRUE ELSE UNCHANGED rhVars
    /\ IF "sb" \in S THEN TRUE ELSE UNCHANGED sbVars
    /\ IF "rq" \in S THEN TRUE ELSE UNCHANGED rqVars
    /\ IF "cc" \in S THEN TRUE ELSE UNCHANGED ccVars
    /\ IF "pm" \in S THEN TRUE ELSE UNCHANGED pmVars
    /\ IF "cv" \in S THEN TRUE ELSE UNCHANGED cvVars

----------------------------------------------------------------------------
(* Bounds of the model *)

MaxN == 2          \* largest maxRequests tried
MaxW == 2          \* largest timeWindow tried (ms)
MaxTime == 4       \* the clock runs over 0..MaxTime
MaxCalls == 4      \* limiter invocations per behaviour
MaxPad == 2
MaxInFlight == 2   \* requests in flight at the same time
MaxConversations == 2   \* calls of conversation per behaviour

----------------------------------------------------------------------------
(* JavaScript values *)

Undefined == [type |-> "undefined"]
Null == [type |-> "null"]
Num(n) == [type |-> "number", num |-> n]
Str(s) == [type |-> "string", str |-> s]
Bool(b) == [type |-> "boolean", bool |-> b]
Obj == [type |-> "object"]

\* the TypeError thrown by a call or a property read the value does not allow
TypeError == [type |-> "throw", name |-> "TypeError"]

\* a string seen through String.prototype.trim: lead whitespace characters,
\* then core characters that begin and end with a non-whitespace character,
\* then trail whitespace characters (a whitespace-only string is all lead)
Txt(lead, core, trail) ==
    [type |-> "string", lead |-> lead, core |-> core, trail |-> trail]

\* s.length
Length(s) == s.lead + s.core + s.trail

\* s.trim()
Trim(s) == Txt(0, s.core, 0)

\* ToBoolean: undefined, null, 0, "" and false are falsy
Truthy(v) ==
    CASE v.type = "undefined" -> FALSE
      [] v.type = "null" -> FALSE
      [] v.type = "number" -> v.num # 0
      [] v.type = "boolean" -> v.bool
      [] v.type = "string" ->
            IF "str" \in DOMAIN v THEN v.str # ""
            ELSE IF "toks" \in DOMAIN v THEN v.toks # << >>
            ELSE Length(v) # 0
      [] OTHER -> TRUE

\* a || b
Or(a, b) == IF Truthy(a) THEN a ELSE b

\* default parameter value: used when the argument is undefined
Default(v, d) == IF v = Undefined THEN d ELSE v

----------------------------------------------------------------------------
(* utils/responseHandler.js *)

sendErrorResponse(message, statusCodeArg, errorsArg, ts) ==
    LET statusCode == Default(statusCodeArg, Num(500))
        errors == Default(errorsArg, Null)
        response == [status |-> FALSE, code |-> statusCode,
                     message |-> message, timestamp |-> ts]
    IN  [statusCode |-> statusCode,
         json |-> IF Truthy(errors)
                     THEN response @@ [errors |-> errors]
                     ELSE response]

sendValidationError(message, validationErrorsArg, ts) ==
    LET validationErrors == Default(validationErrorsArg, Null)
    IN  sendErrorResponse(message, Num(400), validationErrors, ts)

\* an argument that is a message: its text, or the default when undefined
MessageOr(messageArg, default) ==
    IF messageArg = Undefined THEN default ELSE messageArg.str

sendSuccessResponse_MetaAlways(data, messageArg, metaArg, statusCodeArg, ts) ==
    LET statusCode == Default(statusCodeArg, Num(200))
        meta == Default(metaArg, Null)
    IN  [statusCode |-> statusCode,
         json |-> [status |-> TRUE, code |-> statusCode,
                   message |-> MessageOr(messageArg, "Success"),
                   data |-> data, timestamp |-> ts, meta |-> meta]]

sendSuccessResponse(data, messageArg, metaArg, statusCodeArg, ts) ==
    LET statusCode == Default(statusCodeArg, Num(200))
        meta == Default(metaArg, Null)
        response == [status |-> TRUE, code |-> statusCode,
                     message |-> MessageOr(messageArg, "Success"),
                     data |-> data, timestamp |-> ts]
    IN  [statusCode |-> statusCode,
         json |-> IF Truthy(meta)
                     THEN response @@ [meta |-> meta]
                     ELSE response]

\* an Error object
Error(message, stack) == [type |-> "error", message |-> message, stack |-> stack]

OpaqueErrors == "Internal server error occurred"

sendInternalServerError_Details(error, customMessageArg, env, ts) ==
    sendErrorResponse(MessageOr(customMessageArg, "Internal server error"),
                      Num(500),
                      [type |-> "object", message |-> error.message,
                       stack |-> error.stack],
                      ts)

sendInternalServerError(error, customMessageArg, env, ts) ==
    LET customMessage == MessageOr(customMessageArg, "Internal server error")
        isDevelopment == env = "development"
        errorDetails == IF isDevelopment
                           THEN [type |-> "object", message |-> error.message,
                                 stack |-> error.stack]
                           ELSE Str(OpaqueErrors)
    IN  sendErrorResponse(customMessage, Num(500), errorDetails, ts)

\* the values of NODE_ENV tried ("" when the variable is not set)
NodeEnvs == {"development", "production", "test", ""}

EnvIdle == nodeEnv = "test"

Errors ==
    { Error("Gemini API Error: quota", "at callGeminiAPI"),
      Error("Invalid file object - missing buffer or mimetype", "at prepareFileForAPI"),
      Error("", "") }

\* the arguments the response functions are called with
DataValues == {Undefined, Null, Str(""), Str("AI is..."), Obj}
MessageArgs == {Undefined, Str("Custom message")}
MetaValues ==
    {Undefined, Null, Num(0), Str(""), Bool(FALSE),
     [type |-> "object", originalName |-> "test.jpg", size |-> 1024]}
ErrorsValues ==
    {Undefined, Null, Num(0), Str(""), Num(429), Str("Invalid file type"),
     [type |-> "object", field |-> "This field is required"]}
StatusArgs == {Undefined, Num(200), Num(201), Num(400), Num(500)}

ResponseCalls ==
    [fn : {"sendSuccessResponse"}, data : DataValues, message : MessageArgs,
     meta : MetaValues, statusCode : StatusArgs]
    \cup [fn : {"sendErrorResponse"}, message : {Str("Something went wrong")},
          statusCode : StatusArgs, errors : ErrorsValues]
    \cup [fn : {"sendValidationError"}, message : {Str("Validation failed")},
          errors : ErrorsValues]
    \cup [fn : {"sendInternalServerError"}, error : Errors,
          message : MessageArgs]

\* one call of a function of utils/responseHandler.js
SendResponse ==
    /\ rhPc = "start"
    /\ rhOut' =
          CASE rhCall.fn = "sendSuccessResponse" ->
                 sendSuccessResponse(rhCall.data, rhCall.message, rhCall.meta,
                                     rhCall.statusCode, now)
            [] rhCall.fn = "sendErrorResponse" ->
                 sendErrorResponse(rhCall.message.str, rhCall.statusCode,
                                   rhCall.errors, now)
            [] rhCall.fn = "sendValidationError" ->
                 sendValidationError(rhCall.message.str, rhCall.errors, now)
            [] rhCall.fn = "sendInternalServerError" ->
                 sendInternalServerError(rhCall.error, rhCall.message,
                                         nodeEnv, now)
    /\ rhPc' = "done"
    /\ UNCHANGED rhCall
    /\ Frame({"rh"})

RHInit ==
    /\ nodeEnv \in NodeEnvs
    /\ rhCall \in ResponseCalls
    /\ rhOut = Null
    /\ rhPc = "start"

\* the response handler when a run does not exercise it
RHIdle ==
    /\ rhCall = Null
    /\ rhOut = Null
    /\ rhPc = "idle"

----------------------------------------------------------------------------
(* Response handler: claims *)

HasField(r, f) == f \in DOMAIN r

\* the status code a call is expected to answer with
ExpectedCode(call) ==
    CASE call.fn = "sendSuccessResponse" -> Default(call.statusCode, Num(200))
      [] call.fn = "sendErrorResponse" -> Default(call.statusCode, Num(500))
      [] call.fn = "sendValidationError" -> Num(400)
      [] call.fn = "sendInternalServerError" -> Num(500)

\* the parts of the envelope shape that do not concern meta and errors
EnvelopeBase ==
    /\ rhOut.json.status = (rhCall.fn = "sendSuccessResponse")
    /\ rhOut.json.code = ExpectedCode(rhCall)
    /\ rhOut.statusCode = rhOut.json.code
    /\ HasField(rhOut.json, "data") <=> rhCall.fn = "sendSuccessResponse"
    /\ rhCall.fn = "sendSuccessResponse" => rhOut.json.data = rhCall.data
    /\ ~HasField(rhOut.json, "meta") \/ rhOut.json.meta # Null
    /\ ~HasField(rhOut.json, "errors") \/ rhOut.json.errors # Null

Provided(v) == v # Null /\ v # Undefined

\* C17 as stated: a success envelope has status true, the status code
\* (default 200), always data, and meta exactly when a non-null meta was
\* passed; an error envelope has status false, the status code (default 500,
\* 400 for validation errors) and errors exactly when errors were provided;
\* omitted fields are absent, and the HTTP status equals the code.
C17_FieldsIffProvided ==
    rhPc = "done" =>
        /\ EnvelopeBase
        /\ rhCall.fn = "sendSuccessResponse" =>
              (HasField(rhOut.json, "meta") <=> Provided(rhCall.meta))
        /\ rhCall.fn \in {"sendErrorResponse", "sendValidationError"} =>
              (HasField(rhOut.json, "errors") <=> Provided(rhCall.errors))

\* C17 amended: the same, with meta present exactly when the meta passed is
\* truthy and errors present exactly when the errors passed are truthy (0, ""
\* and false are left out like null).
C17_FieldsIffTruthy ==
    rhPc = "done" =>
        /\ EnvelopeBase
        /\ rhCall.fn = "sendSuccessResponse" =>
              /\ HasField(rhOut.json, "meta") <=> Truthy(rhCall.meta)
              /\ Truthy(rhCall.meta) => rhOut.json.meta = rhCall.meta
        /\ rhCall.fn \in {"sendErrorResponse", "sendValidationError"} =>
              /\ HasField(rhOut.json, "errors") <=> Truthy(rhCall.errors)
              /\ Truthy(rhCall.errors) => rhOut.json.errors = rhCall.errors
        /\ rhCall.fn = "sendInternalServerError" => HasField(rhOut.json, "errors")

\* a success envelope sent without meta for a null meta, with the default code
C17_Witness ==
    /\ rhPc = "done"
    /\ rhCall.fn = "sendSuccessResponse"
    /\ rhCall.meta = Null
    /\ rhCall.statusCode = Undefined
    /\ ~HasField(rhOut.json, "meta")
    /\ rhOut.statusCode = Num(200)

\* C19: sendInternalServerError answers 500 with the caller's public message;
\* outside development errors is the fixed string "Internal server error
\* occurred" and the response is the same whatever the underlying error;
\* only in development does errors hold {message, stack}.
C19_NoLeakOutsideDevelopment ==
    (rhPc = "done" /\ rhCall.fn = "sendInternalServerError") =>
        /\ rhOut.statusCode = Num(500)
        /\ rhOut.json.code = Num(500)
        /\ rhOut.json.status = FALSE
        /\ rhOut.json.message =
              IF rhCall.message = Undefined THEN "Internal server error"
                                            ELSE rhCall.message.str
        /\ IF nodeEnv = "development"
              THEN rhOut.json.errors =
                      [type |-> "object", message |-> rhCall.error.message,
                       stack |-> rhCall.error.stack]
              ELSE /\ rhOut.json.errors = Str("Internal server error occurred")
                   /\ \A e \in Errors :
                         sendInternalServerError(e, rhCall.message, nodeEnv, now)
                            = rhOut

\* an internal error answered outside development mode
C19_Witness ==
    /\ rhPc = "done"
    /\ rhCall.fn = "sendInternalServerError"
    /\ nodeEnv = "production"
    /\ rhCall.error.message # ""
    /\ rhOut.json.errors = Str("Internal server error occurred")

----------------------------------------------------------------------------
(* middleware/validation.js: createRateLimiter *)

IPs == {Str("10.0.0.1"), Str("10.0.0.2")}

\* the requests the limiter is called with: req.ip, req.connection.remoteAddress
LimiterRequests ==
    { [ip |-> Str("10.0.0.1"), remoteAddress |-> Str("10.0.0.1")],
      [ip |-> Str("10.0.0.2"), remoteAddress |-> Str("10.0.0.1")],
      [ip |-> Undefined, remoteAddress |-> Str("10.0.0.2")] }

ClientId_IpOnly(req) == req.ip

ClientId(req) == Or(req.ip, req.remoteAddress)

NewEntry_NoWindow(t, w) == [count |-> 1, resetTime |-> t]

NewEntry(t, w) == [count |-> 1, resetTime |-> t + w]

WindowExpired_AtReset(t, clientData) == t >= clientData.resetTime

WindowExpired(t, clientData) == t > clientData.resetTime

QuotaReached_Off(clientData, max) == clientData.count > max

QuotaReached(clientData, max) == clientData.count >= max

MapSet(map, k, v) == [x \in DOMAIN map \cup {k} |-> IF x = k THEN v ELSE map[x]]

TooManyRequests == "Too many requests. Please try again later."

\* outcome of one invocation of the middleware: the Map afterwards, whether
\* next() was called and the response sent (Null when none was sent)
LimiterOutcome(req, map, t) ==
    LET clientId == ClientId(req)
    IN  IF clientId \notin DOMAIN map
        THEN [map |-> MapSet(map, clientId, NewEntry(t, timeWindow)),
              next |-> 1, res |-> Null]
        ELSE LET clientData == map[clientId]
             IN  IF WindowExpired(t, clientData)
                 THEN [map |-> MapSet(map, clientId, NewEntry(t, timeWindow)),
                       next |-> 1, res |-> Null]
                 ELSE IF QuotaReached(clientData, maxRequests)
                 THEN [map |-> map, next |-> 0,
                       res |-> sendValidationError(TooManyRequests, Num(429), t)]
                 ELSE [map |-> MapSet(map, clientId,
                                  [clientData EXCEPT !.count = @ + 1]),
                       next |-> 1, res |-> Null]

RateLimiter(req) ==
    /\ Len(rlLog) < MaxCalls
    /\ LET out == LimiterOutcome(req, requests, now)
       IN  /\ requests' = out.map
           /\ rlLog' = Append(rlLog,
                  [req |-> req, t |-> now, next |-> out.next, res |-> out.res,
                   before |-> requests, after |-> out.map])
    /\ UNCHANGED <<maxRequests, timeWindow, now>>
    /\ Frame({"rl"})

\* time passes between calls
Tick ==
    /\ now < MaxTime
    /\ now' = now + 1
    /\ UNCHANGED <<maxRequests, timeWindow, requests, rlLog>>
    /\ Frame({"rl"})

RLInit ==
    /\ maxRequests \in 1..MaxN
    /\ timeWindow \in 1..MaxW
    /\ requests = << >>
    /\ now = 0
    /\ rlLog = << >>

\* the limiter when a run does not exercise it
RLIdle ==
    /\ maxRequests = 1
    /\ timeWindow = 1
    /\ requests = << >>
    /\ now = 0
    /\ rlLog = << >>

RLNext ==
    \/ Tick
    \/ \E req \in LimiterRequests : RateLimiter(req)

----------------------------------------------------------------------------
(* Rate limiter: claims *)

\* the client a request is accounted to
ExpectedKey(req) == IF req.ip = Undefined THEN req.remoteAddress ELSE req.ip

\* the invocations made for client k, in order
CallsOf(k) == SelectSeq(rlLog, LAMBDA c : ExpectedKey(c.req) = k)

\* C1: for one client key the first maxRequests calls made within the window
\* opened by the first call are admitted, and call number maxRequests + 1,
\* when made within timeWindow ms of the first call, is rejected.
C1_FirstNThenReject ==
    \A k \in IPs :
        LET c == CallsOf(k)
        IN  Len(c) > 0 =>
              /\ \A i \in 1..Len(c) :
                    (i <= maxRequests /\ c[i].t <= c[1].t + timeWindow)
                        => c[i].next = 1
              /\ (Len(c) > maxRequests
                    /\ c[maxRequests + 1].t <= c[1].t + timeWindow)
                        => c[maxRequests + 1].next = 0

\* a client whose call number maxRequests + 1 came exactly timeWindow ms after
\* its first call and was rejected
C1_Witness ==
    \E k \in IPs :
        LET c == CallsOf(k)
        IN  /\ Len(c) > maxRequests
            /\ c[maxRequests + 1].t = c[1].t + timeWindow
            /\ c[maxRequests + 1].next = 0

\* C2: a rejection for an exhausted quota is answered with HTTP status and
\* code 429 and the message "Too many requests. Please try again later."
C2_RejectedWith429 ==
    \A i \in DOMAIN rlLog :
        rlLog[i].next = 0 =>
            /\ rlLog[i].res.statusCode = Num(429)
            /\ rlLog[i].res.json.code = Num(429)
            /\ rlLog[i].res.json.message = TooManyRequests

\* C3 as stated: every call at t >= (opening of the current window) + timeWindow
\* is admitted and starts a new window {count 1, reset time t + timeWindow}.
C3_ResetAtOrAfterWindow ==
    \A i \in DOMAIN rlLog :
        LET c == rlLog[i]
            k == ExpectedKey(c.req)
        IN  (k \in DOMAIN c.before /\ c.t >= c.before[k].resetTime)
                => /\ c.next = 1
                   /\ c.after[k] = [count |-> 1, resetTime |-> c.t + timeWindow]

\* C3 amended: every call at t > (opening of the current window) + timeWindow
\* is admitted and starts a new window {count 1, reset time t + timeWindow},
\* also when the quota was exhausted; a call at exactly opening + timeWindow
\* still belongs to the current window, whose reset time is kept.
C3_ResetAfterWindow ==
    \A i \in DOMAIN rlLog :
        LET c == rlLog[i]
            k == ExpectedKey(c.req)
        IN  /\ (k \in DOMAIN c.before /\ c.t > c.before[k].resetTime)
                => /\ c.next = 1
                   /\ c.after[k] = [count |-> 1, resetTime |-> c.t + timeWindow]
            /\ (k \in DOMAIN c.before /\ c.t = c.before[k].resetTime)
                => /\ c.after[k].resetTime = c.before[k].resetTime
                   /\ c.next = 1 <=> c.before[k].count < maxRequests

\* a call made after the window ended, with the quota exhausted, was admitted
C3_Witness ==
    \E i \in DOMAIN rlLog :
        LET c == rlLog[i]
            k == ExpectedKey(c.req)
        IN  /\ k \in DOMAIN c.before
            /\ c.t > c.before[k].resetTime
            /\ c.before[k].count >= maxRequests
            /\ c.next = 1

\* admitted calls of client k made at a time in lo..hi
AdmittedIn(k, lo, hi) ==
    { i \in DOMAIN rlLog :
        /\ ExpectedKey(rlLog[i].req) = k
        /\ rlLog[i].next = 1
        /\ lo <= rlLog[i].t /\ rlLog[i].t <= hi }

Restrict(map, S) == [x \in DOMAIN map \cap S |-> map[x]]

\* C5: a call for client k leaves every other client's entry as it was and
\* its outcome does not depend on them (k being the remote address when the
\* request has no ip); a rejected call leaves k's entry as it was too.
C5_OtherKeysUntouched ==
    \A i \in DOMAIN rlLog :
        LET c == rlLog[i]
            k == ExpectedKey(c.req)
        IN  /\ DOMAIN c.after = DOMAIN c.before \cup {k}
            /\ \A j \in DOMAIN c.before : j # k => c.after[j] = c.before[j]
            /\ c.next = LimiterOutcome(c.req, Restrict(c.before, {k}), c.t).next
            /\ c.next = 0 => c.after = c.before

\* a request without ip was rejected while another client had an entry
C5_Witness ==
    \E i \in DOMAIN rlLog :
        LET c == rlLog[i]
        IN  /\ c.req.ip = Undefined
            /\ c.next = 0
            /\ \E j \in DOMAIN c.before : j # c.req.remoteAddress


----------------------------------------------------------------------------
(* middleware/validation.js: validatePrompt *)

MaxPromptLength == 10000

PromptRequired == "Prompt is required in the request body"
PromptNotString == "Prompt must be a string"
PromptEmpty == "Prompt cannot be empty"
PromptTooLong == "Prompt is too long (maximum 10,000 characters)"

\* lengths of the non-whitespace core around the limit, and of the padding
CoreLens == {0, 1, 2} \cup (MaxPromptLength - 2 .. MaxPromptLength + 1)
PadLens == (0 .. MaxPad) \cup {MaxPromptLength + 1}

Texts ==
    { Txt(l, c, r) : l \in PadLens, c \in CoreLens, r \in 0 .. MaxPad }
        \ { Txt(l, 0, r) : l \in PadLens, r \in 1 .. MaxPad }

PromptValues ==
    {Undefined, Null, Num(0), Num(123), Bool(FALSE), Bool(TRUE), Obj} \cup Texts

\* the bodies validatePrompt is called with: no prompt key, or a prompt
Bodies == { << >> } \cup { [prompt |-> p] : p \in PromptValues }

\* req.body.prompt (undefined when the key is absent)
PromptOf(b) == IF "prompt" \in DOMAIN b THEN b.prompt ELSE Undefined

\* the message of the first failing check of validatePrompt, "" when none fails
PromptError_LengthFirst(prompt) ==
    IF ~Truthy(prompt) THEN PromptRequired
    ELSE IF prompt.type # "string" THEN PromptNotString
    ELSE IF Length(prompt) > MaxPromptLength THEN PromptTooLong
    ELSE IF Length(Trim(prompt)) = 0 THEN PromptEmpty
    ELSE ""

PromptError(prompt) ==
    IF ~Truthy(prompt) THEN PromptRequired
    ELSE IF prompt.type # "string" THEN PromptNotString
    ELSE IF Length(Trim(prompt)) = 0 THEN PromptEmpty
    ELSE IF Length(prompt) > MaxPromptLength THEN PromptTooLong
    ELSE ""

\* the value written back to req.body.prompt on success
SanitizedPrompt_Untrimmed(prompt) == prompt

SanitizedPrompt(prompt) == Trim(prompt)

validatePrompt ==
    /\ vpPc = "start"
    /\ LET prompt == PromptOf(body)
           error == PromptError(prompt)
       IN  IF error # ""
           THEN /\ res' = sendValidationError(error, Undefined, now)
                /\ UNCHANGED <<body, nextCalls>>
           ELSE /\ body' = [x \in DOMAIN body \cup {"prompt"} |->
                              IF x = "prompt" THEN SanitizedPrompt(prompt)
                                              ELSE body[x]]
                /\ nextCalls' = nextCalls + 1
                /\ UNCHANGED res
    /\ vpPc' = "done"
    /\ UNCHANGED promptIn
    /\ Frame({"vp"})

VPInit ==
    /\ body \in Bodies
    /\ promptIn = PromptOf(body)
    /\ res = Null
    /\ nextCalls = 0
    /\ vpPc = "start"

\* the prompt validator when a run does not exercise it
VPIdle ==
    /\ body = << >>
    /\ promptIn = Undefined
    /\ res = Null
    /\ nextCalls = 0
    /\ vpPc = "idle"

----------------------------------------------------------------------------
(* Prompt validator: claims *)

Accepted == vpPc = "done" /\ nextCalls = 1 /\ res = Null

\* C6: validatePrompt accepts exactly the prompts that are strings whose
\* trimmed length is in 1..10000, whatever whitespace surrounds them.
C6_AcceptsIffTrimmedInRange ==
    vpPc = "done" =>
        (Accepted <=>
            /\ promptIn.type = "string"
            /\ Length(Trim(promptIn)) >= 1
            /\ Length(Trim(promptIn)) <= MaxPromptLength)

\* the validation error expected for a message
Rejected(message) ==
    /\ nextCalls = 0
    /\ res # Null
    /\ res.statusCode = Num(400)
    /\ res.json.code = Num(400)
    /\ res.json.status = FALSE
    /\ res.json.message = message
    /\ body = IF promptIn = Undefined /\ "prompt" \notin DOMAIN body
                 THEN << >> ELSE [prompt |-> promptIn]

\* C7: the rules are applied in the order missing/falsy, non-string, empty
\* after trim, longer than 10,000 characters; the first failing rule alone
\* decides the 400 message and next is not called; on success the prompt is
\* replaced by its trimmed value and next is called exactly once.
C7_FirstFailingRuleDecides ==
    vpPc = "done" =>
        IF ~Truthy(promptIn) THEN Rejected(PromptRequired)
        ELSE IF promptIn.type # "string" THEN Rejected(PromptNotString)
        ELSE IF promptIn.core = 0 THEN Rejected(PromptEmpty)
        ELSE IF promptIn.lead + promptIn.core + promptIn.trail > 10000
            THEN Rejected(PromptTooLong)
        ELSE /\ nextCalls = 1
             /\ res = Null
             /\ body.prompt = Txt(0, promptIn.core, 0)

\* a whitespace-only prompt longer than the limit was answered as empty, and
\* not as too long
C7_Witness ==
    /\ vpPc = "done"
    /\ promptIn.type = "string"
    /\ promptIn.core = 0
    /\ promptIn.lead > MaxPromptLength
    /\ res # Null
    /\ res.json.message = PromptEmpty


----------------------------------------------------------------------------
(* middleware/validation.js: sanitizeRequestBody *)

\* a request body is null, undefined or an object: the function from its own
\* keys to their values
IsObjectBody(b) == b # Null /\ b # Undefined

dangerousKeys == {"__proto__", "constructor", "prototype"}

\* req.body.hasOwnProperty: the method inherited from Object.prototype, unless
\* the body has an own property of that name
HasOwnPropertyIsCallable(b) == "hasOwnProperty" \notin DOMAIN b

\* the body after the dangerous keys are deleted
WithoutDangerousKeys(b) == [k \in DOMAIN b \ dangerousKeys |-> b[k]]

\* the body after every string value is trimmed
WithStringsTrimmed(b) ==
    [k \in DOMAIN b |-> IF b[k].type = "string" THEN Trim(b[k]) ELSE b[k]]

\* outcome of one invocation: the body afterwards, the calls of next() and the
\* exception thrown (calling a property that is no function is a TypeError)
SanitizeOutcome(b) ==
    IF ~IsObjectBody(b)
    THEN [body |-> b, next |-> 1, threw |-> Null]
    ELSE IF ~HasOwnPropertyIsCallable(b)
    THEN [body |-> b, next |-> 0, threw |-> TypeError]
    ELSE [body |-> WithStringsTrimmed(WithoutDangerousKeys(b)),
          next |-> 1, threw |-> Null]

sanitizeRequestBody ==
    /\ sbPc = "start"
    /\ LET out == SanitizeOutcome(sbBody)
       IN  /\ sbBody' = out.body
           /\ sbNext' = sbNext + out.next
           /\ sbThrew' = out.threw
    /\ sbPc' = "done"
    /\ UNCHANGED sbBodyIn
    /\ Frame({"sb"})

\* the values of the body keys tried; Undefined stands for an absent key
SanitizeKeyValues ==
    [ k \in {"__proto__", "constructor", "prototype", "hasOwnProperty",
             "prompt", "n"} |->
        CASE k \in {"__proto__", "constructor"} -> {Undefined, Obj}
          [] k = "prototype" -> {Undefined, Txt(1, 1, 0)}
          [] k = "hasOwnProperty" -> {Undefined, Txt(0, 1, 0)}
          [] k = "prompt" -> {Undefined, Null, Num(5), Txt(0, 1, 0),
                               Txt(1, 1, 1), Txt(MaxPad, 0, 0)}
          [] k = "n" -> {Undefined, Num(0), Txt(0, 2, MaxPad)} ]

\* the object with the keys of f whose value is not Undefined
ObjectOf(f) == [k \in {x \in DOMAIN f : f[x] # Undefined} |-> f[k]]

SanitizeBodies ==
    {Null, Undefined}
        \cup { ObjectOf([__proto__ |-> a, constructor |-> b, prototype |-> c,
                         hasOwnProperty |-> d, prompt |-> e, n |-> f]) :
                 a \in SanitizeKeyValues["__proto__"],
                 b \in SanitizeKeyValues["constructor"],
                 c \in SanitizeKeyValues["prototype"],
                 d \in SanitizeKeyValues["hasOwnProperty"],
                 e \in SanitizeKeyValues["prompt"],
                 f \in SanitizeKeyValues["n"] }

SBInit ==
    /\ sbBodyIn \in SanitizeBodies
    /\ sbBody = sbBodyIn
    /\ sbNext = 0
    /\ sbThrew = Null
    /\ sbPc = "start"

\* the sanitizer when a run does not exercise it
SBIdle ==
    /\ sbBodyIn = Null
    /\ sbBody = Null
    /\ sbNext = 0
    /\ sbThrew = Null
    /\ sbPc = "idle"

----------------------------------------------------------------------------
(* Sanitizer: claims *)

\* C13: sanitizeRequestBody removes the own top-level keys __proto__,
\* constructor and prototype, replaces every top-level string by its trimmed
\* value, leaves every other value and key unchanged, never rejects and calls
\* next exactly once, also for a null or absent body; applying it twice gives
\* the same body as applying it once.
C13_SanitizedAndPassedOn ==
    sbPc = "done" =>
        /\ sbThrew = Null
        /\ sbNext = 1
        /\ IF sbBodyIn = Null \/ sbBodyIn = Undefined
              THEN sbBody = sbBodyIn
              ELSE /\ DOMAIN sbBody =
                        DOMAIN sbBodyIn
                            \ {"__proto__", "constructor", "prototype"}
                   /\ \A k \in DOMAIN sbBody :
                        IF sbBodyIn[k].type = "string"
                           THEN sbBody[k] = Txt(0, sbBodyIn[k].core, 0)
                           ELSE sbBody[k] = sbBodyIn[k]
        /\ SanitizeOutcome(sbBody).body = sbBody

----------------------------------------------------------------------------
(* utils/fileValidation.js *)

MB == 1024 * 1024

FILE_TYPES ==
    [ IMAGE |->
        [ name |-> "image", maxSize |-> 10 * 1024 * 1024,
          allowedMimeTypes |->
            { "image/jpeg", "image/jpg", "image/png", "image/gif",
              "image/webp", "image/bmp", "image/svg+xml" },
          fieldName |-> "file",
          errorMessage |->
            "Only JPEG, PNG, GIF, WebP, BMP, and SVG image files are allowed" ],
      DOCUMENT |->
        [ name |-> "document", maxSize |-> 50 * 1024 * 1024,
          allowedMimeTypes |->
            { "application/pdf", "application/msword",
              "application/vnd.openxmlformats-officedocument.wordprocessingml.document",
              "text/plain", "text/csv", "application/vnd.ms-excel",
              "application/vnd.openxmlformats-officedocument.spreadsheetml.sheet",
              "application/vnd.openxmlformats-officedocument.presentationml.presentation" },
          fieldName |-> "file",
          errorMessage |->
            "Only PDF, Word, Excel, PowerPoint, Text, and CSV files are allowed" ],
      AUDIO |->
        [ name |-> "audio", maxSize |-> 100 * 1024 * 1024,
          allowedMimeTypes |->
            { "audio/mpeg", "audio/mp3", "audio/wav", "audio/ogg",
              "audio/aac", "audio/flac", "audio/webm" },
          fieldName |-> "file",
          errorMessage |->
            "Only MP3, WAV, OGG, AAC, FLAC, and WebM audio files are allowed" ],
      VIDEO |->
        [ name |-> "video", maxSize |-> 200 * 1024 * 1024,
          allowedMimeTypes |->
            { "video/mp4", "video/avi", "video/mov", "video/wmv",
              "video/flv", "video/webm", "video/mkv" },
          fieldName |-> "file",
          errorMessage |->
            "Only MP4, AVI, MOV, WMV, FLV, WebM, and MKV video files are allowed" ] ]

\* the type names tried, by the key String.prototype.toUpperCase gives them
Spellings ==
    [ IMAGE |-> {"image", "IMAGE", "Image", "iMaGe"},
      DOCUMENT |-> {"document", "Document"},
      AUDIO |-> {"audio", "AUDIO"},
      VIDEO |-> {"video", "viDeo"},
      UNKNOWN |-> {"unknown"},
      FILE |-> {"file"} ]

\* typeName.toUpperCase(); a TypeError when typeName is no string
toUpperCase(v) ==
    IF v.type # "string" THEN TypeError
    ELSE IF v.str = "" THEN v
    ELSE Str(CHOOSE u \in DOMAIN Spellings : v.str \in Spellings[u])

getFileTypeConfig_CaseSensitive(typeName) ==
    IF ~Truthy(typeName) \/ typeName.type # "string" THEN Null
    ELSE IF typeName.str \in DOMAIN FILE_TYPES
         THEN FILE_TYPES[typeName.str] ELSE Null

getFileTypeConfig(typeName) ==
    IF ~Truthy(typeName) \/ typeName.type # "string" THEN Null
    ELSE LET upperTypeName == toUpperCase(typeName)
         IN  IF upperTypeName = TypeError THEN TypeError
             ELSE IF upperTypeName.str \in DOMAIN FILE_TYPES
             THEN FILE_TYPES[upperTypeName.str] ELSE Null

\* allowedMimeTypes.includes(v): strict equality with one of the strings
Includes(list, v) == v.type = "string" /\ v.str \in list

isValidFileType(f, typeName) ==
    IF ~Truthy(f) THEN FALSE
    ELSE IF ~Truthy(f.mimetype) THEN FALSE
    ELSE LET config == getFileTypeConfig(typeName)
         IN  IF config = Null THEN FALSE
             ELSE Includes(config.allowedMimeTypes, f.mimetype)

isValidFileSize_Exclusive(f, maxSize) ==
    IF ~Truthy(f) THEN FALSE
    ELSE IF f.size.type # "number" THEN FALSE
    ELSE f.size.num < maxSize

isValidFileSize(f, maxSize) ==
    IF ~Truthy(f) THEN FALSE
    ELSE IF f.size.type # "number" THEN FALSE
    ELSE f.size.num <= maxSize

\* Math.round(n / d) for n >= 0, d > 0
MathRound(n, d) == (2 * n + d) \div (2 * d)

\* String(v), as a template literal converts v
JsString(v) ==
    CASE v.type = "undefined" -> "undefined"
      [] v.type = "null" -> "null"
      [] v.type = "number" -> ToString(v.num)
      [] v.type = "string" -> v.str
      [] v.type = "boolean" -> IF v.bool THEN "true" ELSE "false"
      [] OTHER -> "[object Object]"

Invalid(message) == [isValid |-> FALSE, error |-> Str(message)]

validateFile_FileFirst(f, typeName) ==
    LET config == getFileTypeConfig(typeName)
    IN  IF ~Truthy(f) THEN
            Invalid(JsString(typeName) \o " file is required")
        ELSE IF config = Null THEN
            Invalid("Unknown file type: " \o JsString(typeName))
        ELSE IF ~isValidFileSize(f, config.maxSize) THEN
            Invalid("File size exceeds "
                    \o ToString(MathRound(config.maxSize, MB)) \o "MB limit")
        ELSE IF ~isValidFileType(f, typeName) THEN
            Invalid(config.errorMessage)
        ELSE [isValid |-> TRUE, error |-> Null]

validateFile(f, typeName) ==
    LET config == getFileTypeConfig(typeName)
    IN  IF config = TypeError THEN TypeError
        ELSE IF config = Null THEN
            Invalid("Unknown file type: " \o JsString(typeName))
        ELSE IF ~Truthy(f) THEN
            Invalid(config.name \o " file is required")
        ELSE IF ~isValidFileType(f, typeName) THEN
            Invalid(config.errorMessage)
        ELSE IF ~isValidFileSize(f, config.maxSize) THEN
            LET maxSizeMB == MathRound(config.maxSize, MB)
            IN  Invalid("File size exceeds " \o ToString(maxSizeMB) \o "MB limit")
        ELSE [isValid |-> TRUE, error |-> Null]

\* the declared MIME types tried: every allowed one, two that no category
\* allows, and the absent and empty ones
MimeValues ==
    { Str(m) : m \in UNION { FILE_TYPES[c].allowedMimeTypes : c \in DOMAIN FILE_TYPES } }
        \cup {Str("text/html"), Str("application/zip"), Str(""), Undefined}

\* the sizes tried: around every category's ceiling, absent, and not a number
SizeValues ==
    { Num(n) : n \in {0, 1} \cup UNION { { FILE_TYPES[c].maxSize - 1,
                                            FILE_TYPES[c].maxSize,
                                            FILE_TYPES[c].maxSize + 1 } :
                                          c \in DOMAIN FILE_TYPES } }
        \cup {Undefined, Str("1024")}

FileValues ==
    {Null, Undefined}
        \cup [type : {"object"}, mimetype : MimeValues, size : SizeValues]

FileTypeValues ==
    { Str(n) : n \in UNION { Spellings[u] : u \in DOMAIN Spellings } }
        \cup {Str(""), Undefined, Null, Num(1)}

\* one call validateFile(file, fileType); a call that throws returns nothing
ValidateFileCall ==
    /\ vfPc = "start"
    /\ vfResult' = validateFile(file, fileType)
    /\ vfPc' = "done"
    /\ UNCHANGED <<file, fileType>>
    /\ Frame({"vf"})

VFInit ==
    /\ file \in FileValues
    /\ fileType \in FileTypeValues
    /\ vfResult = Null
    /\ vfPc = "start"

\* the file validator when a run does not exercise it
VFIdle ==
    /\ file = Null
    /\ fileType = Undefined
    /\ vfResult = Null
    /\ vfPc = "idle"

----------------------------------------------------------------------------
(* File validator: claims *)

\* the registered category a type name denotes, letter case ignored
Registered(t) ==
    /\ t.type = "string"
    /\ \E c \in DOMAIN FILE_TYPES : t.str \in Spellings[c]

CategoryOf(t) == CHOOSE c \in DOMAIN FILE_TYPES : t.str \in Spellings[c]

Present(f) == f # Null /\ f # Undefined

MimeAllowed(f, c) ==
    \E m \in FILE_TYPES[c].allowedMimeTypes : f.mimetype = Str(m)

\* the size is a number not above the category's ceiling
SizeAllowed(f, c) ==
    /\ f.size.type = "number"
    /\ f.size.num <= FILE_TYPES[c].maxSize

\* C8: for a registered category C (letter case ignored) validateFile(f, C)
\* is valid exactly when f is present, its MIME type is one C allows and its
\* size is at most C's maxSize; error is null exactly when isValid is true.
C8_ValidIffPresentTypeSize ==
    (vfPc = "done" /\ Registered(fileType)) =>
        LET c == CategoryOf(fileType)
        IN  /\ vfResult.isValid <=>
                  (Present(file) /\ MimeAllowed(file, c) /\ SizeAllowed(file, c))
            /\ vfResult.error = Null <=> vfResult.isValid

\* a file was found valid for a category named in mixed case
C8_Witness ==
    /\ vfPc = "done"
    /\ fileType = Str("iMaGe")
    /\ Present(file)
    /\ file.size = Num(FILE_TYPES.IMAGE.maxSize)
    /\ vfResult.isValid
    /\ vfResult.error = Null

\* the number of MB named for a ceiling: maxSize / 2^20 rounded to nearest
CeilingMB(maxSize) ==
    CHOOSE m \in 0 .. 1024 :
        /\ 2 * m * 1048576 - 1048576 <= 2 * maxSize
        /\ 2 * maxSize < 2 * m * 1048576 + 1048576

SizeMessage(c) ==
    "File size exceeds " \o ToString(CeilingMB(FILE_TYPES[c].maxSize))
        \o "MB limit"

\* C9: validateFile never throws and reports the first failing check in the
\* order unknown category, missing file, disallowed MIME type, oversize.
C9_FirstFailingCheck ==
    vfPc = "done" =>
        /\ vfResult # TypeError
        /\ IF ~Registered(fileType)
              THEN vfResult = [isValid |-> FALSE,
                      error |-> Str("Unknown file type: " \o JsString(fileType))]
           ELSE LET c == CategoryOf(fileType)
                IN  IF ~Present(file)
                       THEN vfResult = [isValid |-> FALSE,
                               error |-> Str(FILE_TYPES[c].name \o " file is required")]
                    ELSE IF ~MimeAllowed(file, c)
                       THEN vfResult = [isValid |-> FALSE,
                               error |-> Str(FILE_TYPES[c].errorMessage)]
                    ELSE IF ~SizeAllowed(file, c)
                       THEN vfResult = [isValid |-> FALSE,
                               error |-> Str(SizeMessage(c))]
                    ELSE vfResult = [isValid |-> TRUE, error |-> Null]

\* an unknown category with a missing file was answered as unknown category
C9_Witness ==
    /\ vfPc = "done"
    /\ fileType = Str("unknown")
    /\ file = Null
    /\ vfResult.error = Str("Unknown file type: unknown")

\* C10: with an allowed MIME type a file of exactly maxSize bytes is valid, as
\* is a file of zero bytes, and a file of maxSize + 1 bytes is invalid with
\* "File size exceeds <M>MB limit", M = round(maxSize / 2^20).
C10_InclusiveSizeLimit ==
    (vfPc = "done" /\ Registered(fileType) /\ Present(file)
        /\ MimeAllowed(file, CategoryOf(fileType))) =>
        LET c == CategoryOf(fileType)
        IN  /\ file.size = Num(FILE_TYPES[c].maxSize) => vfResult.isValid
            /\ file.size = Num(0) => vfResult.isValid
            /\ file.size = Num(FILE_TYPES[c].maxSize + 1) =>
                  vfResult = [isValid |-> FALSE, error |-> Str(SizeMessage(c))]

\* a video of exactly the video ceiling was found valid
C10_Witness ==
    /\ vfPc = "done"
    /\ fileType = Str("video")
    /\ Present(file)
    /\ file.mimetype = Str("video/mp4")
    /\ file.size = Num(200 * 1024 * 1024)
    /\ vfResult.isValid

----------------------------------------------------------------------------
(* utils/fileValidation.js: prepareFileForAPI, formatFileMetadata *)

\* buffer.toString('base64'): four characters for every three bytes
Base64(buffer) ==
    [type |-> "string", encoding |-> "base64", of |-> buffer.bytes,
     length |-> 4 * ((Len(buffer.bytes) + 2) \div 3)]

InvalidFileObject == "Invalid file object - missing buffer or mimetype"

\* the value returned, or the Error thrown
prepareFileForAPI_NoCheck(f) ==
    IF ~Truthy(f) THEN [type |-> "object", mimeType |-> Undefined, data |-> Undefined]
    ELSE [type |-> "object", mimeType |-> f.mimetype,
          data |-> IF Truthy(f.buffer) THEN Base64(f.buffer) ELSE Undefined]

prepareFileForAPI(f) ==
    IF ~Truthy(f) THEN Error(InvalidFileObject, "at prepareFileForAPI")
    ELSE IF ~Truthy(f.buffer) \/ ~Truthy(f.mimetype)
    THEN Error(InvalidFileObject, "at prepareFileForAPI")
    ELSE [type |-> "object", mimeType |-> f.mimetype, data |-> Base64(f.buffer)]

IsError(v) == "type" \in DOMAIN v /\ v.type = "error"

\* formatFileSize(bytes) for 0 <= bytes < 1024^3: the amount in hundredths of
\* the unit (toFixed(2)) and the unit
formatFileSize(bytes) ==
    IF bytes = 0 THEN [hundredths |-> 0, unit |-> "Bytes"]
    ELSE LET i == IF bytes < 1024 THEN 0 ELSE IF bytes < 1024 * 1024 THEN 1 ELSE 2
             k == IF i = 0 THEN 1 ELSE IF i = 1 THEN 1024 ELSE 1024 * 1024
         IN  [hundredths |-> (bytes \div k) * 100
                               + MathRound((bytes % k) * 100, k),
              unit |-> IF i = 0 THEN "Bytes" ELSE IF i = 1 THEN "KB" ELSE "MB"]

formatFileMetadata(f, ts) ==
    IF ~Truthy(f) THEN Null
    ELSE LET size == Or(f.size, Num(0))
         IN  [type |-> "object",
              originalName |-> Or(f.originalname, Str("unknown")),
              mimeType |-> Or(f.mimetype, Str("unknown")),
              size |-> size,
              sizeFormatted |-> formatFileSize(size.num),
              uploadedAt |-> ts]

----------------------------------------------------------------------------
(* modules/genAI/controller.js *)

FileCategories == {"image", "document", "audio", "video"}

Handlers == {"text", "health", "file-types"} \cup FileCategories

\* the value a call of the upstream service settles with
UpstreamOutcomes ==
    { [kind |-> "return", value |-> v] :
        v \in {Str("AI is..."), Str(""), Undefined, Num(42)} }
    \cup { [kind |-> "throw", error |-> Error("quota exceeded", "at generateContent")] }

ValidPromptRequired == Error("Valid prompt is required", "at handleRequest")

CannotReadProperty == Error("Cannot read properties of undefined", "at handler")

\* logRequest reads req.body.prompt: a TypeError when req.body is no object
logRequestThrows(rq) == ~IsObjectBody(rq.body)

\* const { prompt } = req.body || {}
ControllerPrompt(rq) ==
    IF IsObjectBody(rq.body) THEN PromptOf(rq.body) ELSE Undefined

\* !prompt || typeof prompt !== 'string' || prompt.trim() === ''
PromptMissing(prompt) ==
    \/ ~Truthy(prompt)
    \/ prompt.type # "string"
    \/ Length(Trim(prompt)) = 0

\* callGeminiAPI: the upstream function called for (prompt, fileData)
callGeminiAPI(prompt, fileData) ==
    [fn |-> IF Truthy(fileData) THEN "generateFromFile" ELSE "generateText",
     prompt |-> prompt, fileData |-> fileData]

\* what callGeminiAPI throws when the upstream call fails with error
GeminiError(error) == Error("Gemini API Error: " \o error.message, "at callGeminiAPI")

TextFailed == "Failed to generate content"
TextSucceeded == "Content generated successfully"
FileFailed(category) == "Failed to generate content from " \o category
FileSucceeded(category) == "Content generated successfully from " \o category

\* handleTextRequest up to the awaited upstream call: the responses sent, the
\* upstream call made (Null when none) and the calls of prepareFileForAPI
TextRequestStart_Untrimmed(rq, env, t) ==
    IF logRequestThrows(rq) \/ PromptMissing(ControllerPrompt(rq))
    THEN [sent |-> <<sendInternalServerError(ValidPromptRequired, Str(TextFailed), env, t)>>,
          call |-> Null, prep |-> 0, escaped |-> Null]
    ELSE [sent |-> << >>, call |-> callGeminiAPI(ControllerPrompt(rq), Null),
          prep |-> 0, escaped |-> Null]

TextRequestStart(rq, env, t) ==
    IF logRequestThrows(rq)
    THEN [sent |-> <<sendInternalServerError(CannotReadProperty, Str(TextFailed), env, t)>>,
          call |-> Null, prep |-> 0, escaped |-> Null]
    ELSE LET prompt == ControllerPrompt(rq)
         IN  IF PromptMissing(prompt)
             THEN [sent |-> <<sendInternalServerError(ValidPromptRequired,
                                                       Str(TextFailed), env, t)>>,
                   call |-> Null, prep |-> 0, escaped |-> Null]
             ELSE [sent |-> << >>,
                   call |-> callGeminiAPI(Trim(prompt), Null), prep |-> 0,
                   escaped |-> Null]

\* handleFileRequest up to the awaited upstream call
FileRequestStart_NoEarlyReturn(rq, category, env, t) ==
    IF logRequestThrows(rq) \/ PromptMissing(ControllerPrompt(rq))
    THEN [sent |-> <<sendInternalServerError(ValidPromptRequired,
                                              Str(FileFailed(category)), env, t)>>,
          call |-> Null, prep |-> 0, escaped |-> Null]
    ELSE LET fileData == prepareFileForAPI(rq.file)
         IN  IF IsError(fileData)
             THEN [sent |-> <<sendInternalServerError(fileData,
                                  Str(FileFailed(category)), env, t)>>,
                   call |-> Null, prep |-> 1, escaped |-> Null]
             ELSE [sent |-> << >>,
                   call |-> callGeminiAPI(Trim(ControllerPrompt(rq)), fileData),
                   prep |-> 1, escaped |-> Null]

FileRequestStart(rq, category, env, t) ==
    IF logRequestThrows(rq)
    THEN [sent |-> <<sendInternalServerError(CannotReadProperty,
                                              Str(FileFailed(category)), env, t)>>,
          call |-> Null, prep |-> 0, escaped |-> Null]
    ELSE LET prompt == ControllerPrompt(rq)
             validation == validateFile(rq.file, Str(category))
         IN  IF PromptMissing(prompt)
             THEN [sent |-> <<sendInternalServerError(ValidPromptRequired,
                                      Str(FileFailed(category)), env, t)>>,
                   call |-> Null, prep |-> 0, escaped |-> Null]
             ELSE IF ~validation.isValid
             THEN [sent |-> <<sendValidationError(validation.error.str, Undefined, t)>>,
                   call |-> Null, prep |-> 0, escaped |-> Null]
             ELSE LET fileData == prepareFileForAPI(rq.file)
                  IN  IF IsError(fileData)
                      THEN [sent |-> <<sendInternalServerError(fileData,
                                           Str(FileFailed(category)), env, t)>>,
                            call |-> Null, prep |-> 1, escaped |-> Null]
                      ELSE [sent |-> << >>,
                            call |-> callGeminiAPI(Trim(prompt), fileData),
                            prep |-> 1, escaped |-> Null]

\* generatedText.length is read for the log: a TypeError on undefined or null
LengthThrows(v) == v.type \in {"undefined", "null"}

\* the rest of handleTextRequest once the upstream call has settled
TextRequestResume(rq, outcome, env, t) ==
    IF outcome.kind = "throw"
    THEN sendInternalServerError(GeminiError(outcome.error), Str(TextFailed), env, t)
    ELSE IF LengthThrows(outcome.value)
    THEN sendInternalServerError(CannotReadProperty, Str(TextFailed), env, t)
    ELSE sendSuccessResponse(outcome.value, Str(TextSucceeded), Undefined,
                             Undefined, t)

\* the rest of handleFileRequest once the upstream call has settled
FileRequestResume(rq, category, outcome, env, t) ==
    IF outcome.kind = "throw"
    THEN sendInternalServerError(GeminiError(outcome.error),
                                 Str(FileFailed(category)), env, t)
    ELSE IF LengthThrows(outcome.value)
    THEN sendInternalServerError(CannotReadProperty,
                                 Str(FileFailed(category)), env, t)
    ELSE sendSuccessResponse(outcome.value, Str(FileSucceeded(category)),
                             formatFileMetadata(rq.file, t), Undefined, t)

HealthFailed == "Health check failed"

UptimeFailed == Error("uptime failed", "at healthCheck")

HealthData(system, t) ==
    [type |-> "object", status |-> "healthy", timestamp |-> t,
     uptime |-> system.uptime, memory |-> Obj, version |-> "1.0.0"]

\* healthCheck: the responses sent and the exception that leaves it
healthCheck_NoCatch(system, env, t) ==
    IF system.throws
    THEN [sent |-> << >>, call |-> Null, prep |-> 0, escaped |-> UptimeFailed]
    ELSE [sent |-> <<sendSuccessResponse(HealthData(system, t),
                        Str("Service is healthy"), Undefined, Undefined, t)>>,
          call |-> Null, prep |-> 0, escaped |-> Null]

healthCheck(system, env, t) ==
    IF system.throws
    THEN [sent |-> <<sendInternalServerError(UptimeFailed, Str(HealthFailed),
                                              env, t)>>,
          call |-> Null, prep |-> 0, escaped |-> Null]
    ELSE [sent |-> <<sendSuccessResponse(HealthData(system, t),
                        Str("Service is healthy"), Undefined, Undefined, t)>>,
          call |-> Null, prep |-> 0, escaped |-> Null]

FileTypesFailed == "Failed to retrieve file types information"

\* key.toLowerCase() for the keys of the registry
toLowerCase(key) ==
    CASE key = "IMAGE" -> "image"
      [] key = "DOCUMENT" -> "document"
      [] key = "AUDIO" -> "audio"
      [] key = "VIDEO" -> "video"

\* the order in which Object.entries lists the keys of the registry
RegistryKeys == <<"IMAGE", "DOCUMENT", "AUDIO", "VIDEO">>

\* Object.entries(registry).map(([key, config]) => ({...}))
FileTypesInfo(registry) ==
    [i \in 1..Len(RegistryKeys) |->
        LET key == RegistryKeys[i]
            config == registry[key]
        IN  [type |-> toLowerCase(key), name |-> config.name,
             maxSize |-> config.maxSize,
             maxSizeMB |-> MathRound(config.maxSize, 1024 * 1024),
             allowedMimeTypes |-> config.allowedMimeTypes,
             fieldName |-> config.fieldName]]

\* getSupportedFileTypes: Object.entries is applied to what getFileTypeConfig
\* returns when called without an argument; on null it throws a TypeError
getSupportedFileTypes(env, t) ==
    LET registry == getFileTypeConfig(Undefined)
    IN  IF registry = Null
        THEN [sent |-> <<sendInternalServerError(
                            Error("Cannot convert undefined or null to object",
                                  "at getSupportedFileTypes"),
                            Str(FileTypesFailed), env, t)>>,
              call |-> Null, prep |-> 0, escaped |-> Null]
        ELSE [sent |-> <<sendSuccessResponse(FileTypesInfo(registry),
                            Str("Supported file types retrieved successfully"),
                            Undefined, Undefined, t)>>,
              call |-> Null, prep |-> 0, escaped |-> Null]

\* the handler runs from its entry to its first await, or to its end
HandlerStart ==
    /\ pc = "controller"
    /\ LET out == IF handler = "text" THEN TextRequestStart(request, nodeEnv, now)
                  ELSE IF handler = "health"
                  THEN healthCheck(sys, nodeEnv, now)
                  ELSE IF handler = "file-types"
                  THEN getSupportedFileTypes(nodeEnv, now)
                  ELSE FileRequestStart(request, handler, nodeEnv, now)
       IN  /\ sent' = sent \o out.sent
           /\ prepCalls' = prepCalls + out.prep
           /\ escaped' = out.escaped
           /\ IF out.call = Null
                 THEN /\ pc' = "done"
                      /\ UNCHANGED upCalls
                 ELSE /\ pc' = "awaiting"
                      /\ upCalls' = Append(upCalls, out.call)
    /\ trace' = Append(trace, "controller")
    /\ UNCHANGED <<handler, request, sys, upResults, nextError>>
    /\ Frame({"rq"})

\* a handler that calls the upstream a second time after a failure
UpstreamSettles_Retry(outcome) ==
    /\ pc = "awaiting"
    /\ upResults' = Append(upResults, outcome)
    /\ IF outcome.kind = "throw" /\ Len(upCalls) < 2
          THEN /\ upCalls' = Append(upCalls, upCalls[1])
               /\ UNCHANGED <<pc, sent>>
          ELSE /\ pc' = "done"
               /\ sent' = Append(sent,
                     IF handler = "text"
                        THEN TextRequestResume(request, outcome, nodeEnv, now)
                        ELSE FileRequestResume(request, handler, outcome, nodeEnv, now))
               /\ UNCHANGED upCalls
    /\ trace' = Append(trace, IF outcome.kind = "throw" THEN "upstream-failed"
                              ELSE "upstream-returned")
    /\ UNCHANGED <<handler, request, sys, prepCalls, escaped, nextError>>
    /\ Frame({"rq"})

\* the awaited upstream call settles and the handler runs to its end
UpstreamSettles(outcome) ==
    /\ pc = "awaiting"
    /\ sent' = Append(sent,
                  IF handler = "text"
                     THEN TextRequestResume(request, outcome, nodeEnv, now)
                     ELSE FileRequestResume(request, handler, outcome, nodeEnv, now))
    /\ pc' = "done"
    /\ trace' = Append(trace, IF outcome.kind = "throw" THEN "upstream-failed"
                              ELSE "upstream-returned")
    /\ upResults' = Append(upResults, outcome)
    /\ UNCHANGED <<handler, request, sys, upCalls, prepCalls, escaped, nextError>>
    /\ Frame({"rq"})

\* the bodies and files the handlers are called with
ControllerBodies ==
    {Undefined, Null, << >>}
        \cup { [prompt |-> p] :
                 p \in {Num(123), Txt(0, 0, 0), Txt(MaxPad, 0, 0), Txt(0, 3, 0),
                        Txt(1, 3, MaxPad), Txt(0, MaxPromptLength + 1, 0)} }

Buffers == {Undefined, [type |-> "buffer", bytes |-> <<1, 2, 3, 4>>]}

ControllerFiles ==
    {Null}
        \cup [type : {"object"},
              originalname : {Str("test.jpg")},
              mimetype : {Str("image/jpeg"), Str("application/pdf"),
                          Str("audio/mpeg"), Str("video/mp4"), Str("text/html"),
                          Undefined},
              size : {Num(1024), Num(10 * 1024 * 1024), Num(10 * 1024 * 1024 + 1),
                      Undefined},
              buffer : Buffers]

Systems == [uptime : {0, 3600}, throws : BOOLEAN]

ControllerInit ==
    /\ nodeEnv \in {"development", "production"}
    /\ handler \in Handlers
    /\ request \in [body : ControllerBodies, file : ControllerFiles]
    /\ sys \in Systems
    /\ (handler \in {"health", "file-types"} =>
            request = [body |-> << >>, file |-> Null])
    /\ (handler # "health" => sys = [uptime |-> 0, throws |-> FALSE])
    /\ (handler = "text" => request.file = Null)
    /\ pc = "controller"
    /\ sent = << >>
    /\ upCalls = << >>
    /\ upResults = << >>
    /\ prepCalls = 0
    /\ escaped = Null
    /\ nextError = Null
    /\ trace = << >>

\* the request path when a run does not exercise it
RQIdle ==
    /\ handler = "none"
    /\ request = Null
    /\ sys = Null
    /\ pc = "idle"
    /\ sent = << >>
    /\ upCalls = << >>
    /\ upResults = << >>
    /\ prepCalls = 0
    /\ escaped = Null
    /\ nextError = Null
    /\ trace = << >>

----------------------------------------------------------------------------
(* modules/genAI/API.js: the router *)

\* a header value: a string seen as a sequence of tokens
Hdr(toks) == [type |-> "string", toks |-> toks]

\* haystack.includes(needle) on token sequences
IncludesTokens(haystack, needle) ==
    \E i \in 1..(Len(haystack) - Len(needle) + 1) :
        SubSeq(haystack, i, i + Len(needle) - 1) = needle

MultipartFormData == <<"multipart", "/", "form-data">>

ContentTypeRequired == "Content-Type must be multipart/form-data for file uploads"

\* validateContentType: TRUE when next() is called, FALSE when the 400 is sent
validateContentType_Exact(contentType) ==
    Truthy(contentType) /\ contentType.toks = MultipartFormData

validateContentType(contentType) ==
    ~(~Truthy(contentType) \/ ~IncludesTokens(contentType.toks, MultipartFormData))

\* the rate limiter of the router: createRateLimiter(100, 15 * 60 * 1000)
RouterMaxRequests == 100
RouterTimeWindow == 15 * 60 * 1000

\* the middleware of each route, in the order it is registered
RouteStack_PromptFirst(h) ==
    IF h \in {"health", "file-types"} THEN <<"controller">>
    ELSE IF h = "text" THEN <<"validatePrompt", "controller">>
    ELSE <<"validateContentType", "validatePrompt", "upload",
           "handleMulterError", "validateFileUpload", "controller">>

RouteStack(h) ==
    IF h \in {"health", "file-types"} THEN <<"controller">>
    ELSE IF h = "text" THEN <<"validatePrompt", "controller">>
    ELSE <<"validateContentType", "upload", "handleMulterError",
           "validatePrompt", "validateFileUpload", "controller">>

RouterStack(h) ==
    <<"rateLimiter", "sanitizeRequestBody">> \o RouteStack(h) \o <<"errorHandler">>

\* the middleware declared with four parameters (error, req, res, next)
ErrorMiddleware == {"handleMulterError", "errorHandler"}

\* where next() (errorful = FALSE) or next(error) (errorful = TRUE) called in
\* stage leads: the next middleware of that kind, as Express dispatches
After(h, stage, errorful) ==
    LET stack == RouterStack(h)
        i == CHOOSE k \in 1..Len(stack) : stack[k] = stage
        later == {j \in (i + 1)..Len(stack) : (stack[j] \in ErrorMiddleware) = errorful}
    IN  IF later = {} THEN "done"
        ELSE stack[CHOOSE j \in later : \A k \in later : j <= k]

\* FILE_TYPES entry of a route's category
ConfigOf(category) ==
    CASE category = "image" -> FILE_TYPES.IMAGE
      [] category = "document" -> FILE_TYPES.DOCUMENT
      [] category = "audio" -> FILE_TYPES.AUDIO
      [] category = "video" -> FILE_TYPES.VIDEO

MulterError(code, message) ==
    [type |-> "error", message |-> message, stack |-> "at multer", code |-> code]

IsMulterError(error) == "code" \in DOMAIN error

\* the request is parsed by multer only when its media type is multipart
IsMultipart(contentType) ==
    /\ Truthy(contentType)
    /\ Len(contentType.toks) >= 2
    /\ contentType.toks[1] = "multipart"
    /\ contentType.toks[2] = "/"

HasBoundary(contentType) == IncludesTokens(contentType.toks, <<"; boundary=x">>)

UploadedBuffer == [type |-> "buffer", bytes |-> <<1, 2, 3, 4>>]

\* multer(createUploadConfig(config)).single('file') on a request: the error
\* handed to next (Null when none), and req.body and req.file afterwards
Upload(rq, config) ==
    LET files == rq.upload.files
        passed == [error |-> Null, body |-> rq.body, file |-> Undefined]
        failed(e) == [error |-> e, body |-> rq.body, file |-> Undefined]
    IN  IF ~IsMultipart(rq.contentType) THEN passed
        ELSE IF ~HasBoundary(rq.contentType)
        THEN failed(Error("Multipart: Boundary not found", "at busboy"))
        ELSE IF files = << >>
        THEN [error |-> Null, body |-> rq.upload.fields, file |-> Undefined]
        ELSE IF files[1].fieldname # config.fieldName
        THEN failed(MulterError("LIMIT_UNEXPECTED_FILE", "Unexpected field"))
        ELSE IF files[1].mimetype \notin config.allowedMimeTypes
        THEN failed(Error(config.errorMessage, "at fileFilter"))
        ELSE IF files[1].size > config.maxSize
        THEN failed(MulterError("LIMIT_FILE_SIZE", "File too large"))
        ELSE IF Len(files) > 1
        THEN failed(MulterError("LIMIT_FILE_COUNT", "Too many files"))
        ELSE [error |-> Null, body |-> rq.upload.fields,
              file |-> [type |-> "object", originalname |-> Str("upload.bin"),
                        mimetype |-> Str(files[1].mimetype),
                        size |-> Num(files[1].size), buffer |-> UploadedBuffer]]

\* message.includes('Only') && message.includes('files are allowed'): of the
\* messages an error carries here, the errorMessage of the four categories
IncludesOnlyFilesAreAllowed(message) ==
    message \in {FILE_TYPES[c].errorMessage : c \in DOMAIN FILE_TYPES}

\* res.status(400).json({status, code, message, errors})
MulterErrorResponse(message, errors) ==
    [statusCode |-> Num(400),
     json |-> [status |-> FALSE, code |-> Num(400), message |-> message,
               errors |-> Str(errors)]]

\* handleMulterError: the response sent, or Null when next(error) is called
handleMulterError(error, t) ==
    IF IsMulterError(error) /\ error.code = "LIMIT_FILE_SIZE"
    THEN MulterErrorResponse("File size exceeds the allowed limit", error.message)
    ELSE IF IsMulterError(error) /\ error.code = "LIMIT_FILE_COUNT"
    THEN MulterErrorResponse("Too many files uploaded", error.message)
    ELSE IF IncludesOnlyFilesAreAllowed(error.message)
    THEN MulterErrorResponse(error.message, "Invalid file type")
    ELSE Null

\* router.use((error, req, res, next) => ...): the response sent
GlobalErrorHandler(error, env) ==
    [statusCode |-> Num(500),
     json |-> [status |-> FALSE, code |-> Num(500),
               message |-> "Internal server error",
               errors |-> Str(IF env = "development" THEN error.message
                              ELSE "Something went wrong")]]

FileRequired(category) == category \o " file is required for this endpoint"

\* a middleware has run: the response it sent (Null when none), what it did
\* with next ("next", "error" or "none") and the error it handed over
Advance(stage, response, nextCall, error) ==
    /\ pc = stage
    /\ sent' = IF response = Null THEN sent ELSE Append(sent, response)
    /\ pc' = IF nextCall = "none" THEN "done"
             ELSE After(handler, stage, nextCall = "error")
    /\ nextError' = IF nextCall = "error" THEN error ELSE nextError
    /\ trace' = Append(trace, stage)
    /\ UNCHANGED <<handler, sys, upCalls, upResults, prepCalls, escaped>>

\* router.use(rateLimiter)
RouterRateLimiter ==
    LET out == LimiterOutcome(request.client, requests, now)
    IN  /\ Advance("rateLimiter", out.res,
                   IF out.next = 1 THEN "next" ELSE "none", Null)
        /\ requests' = out.map
        /\ rlLog' = Append(rlLog,
               [req |-> request.client, t |-> now, next |-> out.next,
                res |-> out.res, before |-> requests, after |-> out.map])
        /\ UNCHANGED <<request, maxRequests, timeWindow, now>>
        /\ Frame({"rq", "rl"})

\* router.use(sanitizeRequestBody)
RouterSanitize ==
    LET out == SanitizeOutcome(request.body)
    IN  /\ Advance("sanitizeRequestBody", Null,
                   IF out.threw = Null THEN "next" ELSE "error",
                   Error("req.body.hasOwnProperty is not a function",
                         "at sanitizeRequestBody"))
        /\ request' = [request EXCEPT !.body = out.body]
        /\ Frame({"rq"})

RouterValidateContentType ==
    /\ IF validateContentType(request.contentType)
          THEN Advance("validateContentType", Null, "next", Null)
          ELSE Advance("validateContentType",
                       sendValidationError(ContentTypeRequired, Undefined, now),
                       "none", Null)
    /\ UNCHANGED request
    /\ Frame({"rq"})

\* upload.single('file')
RouterUpload ==
    /\ pc = "upload"
    /\ LET out == Upload(request, ConfigOf(handler))
       IN  /\ Advance("upload", Null,
                      IF out.error = Null THEN "next" ELSE "error", out.error)
           /\ request' = [request EXCEPT !.body = out.body, !.file = out.file]
    /\ Frame({"rq"})

RouterHandleMulterError ==
    /\ pc = "handleMulterError"
    /\ LET response == handleMulterError(nextError, now)
       IN  IF response = Null
           THEN Advance("handleMulterError", Null, "error", nextError)
           ELSE Advance("handleMulterError", response, "none", Null)
    /\ UNCHANGED request
    /\ Frame({"rq"})

\* validatePrompt as a middleware of the router
RouterValidatePrompt ==
    /\ pc = "validatePrompt"
    /\ IF ~IsObjectBody(request.body)
       THEN /\ Advance("validatePrompt", Null, "error", CannotReadProperty)
            /\ UNCHANGED request
       ELSE LET prompt == PromptOf(request.body)
                error == PromptError(prompt)
            IN  IF error # ""
                THEN /\ Advance("validatePrompt",
                                sendValidationError(error, Undefined, now),
                                "none", Null)
                     /\ UNCHANGED request
                ELSE /\ Advance("validatePrompt", Null, "next", Null)
                     /\ request' =
                          [request EXCEPT !.body =
                              [x \in DOMAIN request.body \cup {"prompt"} |->
                                  IF x = "prompt" THEN SanitizedPrompt(prompt)
                                  ELSE request.body[x]]]
    /\ Frame({"rq"})

\* validateFileUpload(fileType)
RouterValidateFileUpload ==
    /\ pc = "validateFileUpload"
    /\ IF ~Truthy(request.file)
       THEN /\ Advance("validateFileUpload",
                       sendValidationError(FileRequired(handler), Undefined, now),
                       "none", Null)
            /\ UNCHANGED request
       ELSE /\ Advance("validateFileUpload", Null, "next", Null)
            /\ request' = [request EXCEPT !.fileType = Str(handler)]
    /\ Frame({"rq"})

RouterErrorHandler ==
    /\ pc = "errorHandler"
    /\ Advance("errorHandler", GlobalErrorHandler(nextError, nodeEnv), "none", Null)
    /\ UNCHANGED request
    /\ Frame({"rq"})

\* the Content-Type headers tried
ContentTypes ==
    {Undefined, Hdr(<< >>), Hdr(MultipartFormData),
     Hdr(MultipartFormData \o <<"; boundary=x">>),
     Hdr(<<"application", "/", "json">>),
     Hdr(<<"Multipart", "/", "form-data", "; boundary=x">>),
     Hdr(<<"multipart", "/", "mixed", "; boundary=x">>),
     Hdr(<<"application", "/", "x-", "multipart", "/", "form-data">>)}

\* the file parts of a multipart payload
FileParts ==
    [fieldname : {"file", "other"},
     mimetype : {"image/jpeg", "application/pdf", "audio/mpeg", "video/mp4",
                 "text/html"},
     size : {1024, 10 * MB, 10 * MB + 1, 15 * MB, 200 * MB + 1}]

\* the multipart payloads tried: the text fields and the file parts
Uploads ==
    [fields : {<< >>, [prompt |-> Txt(1, 3, MaxPad)], [prompt |-> Txt(MaxPad, 0, 0)],
               [prompt |-> Txt(0, 3, 0), constructor |-> Txt(0, 1, 0),
                note |-> Txt(1, 1, 0)]},
     files : {<< >>} \cup {<<f>> : f \in FileParts}
               \cup {<<f, f>> : f \in {p \in FileParts : p.size = 1024}}]

\* the JSON bodies tried on /generate-text
JsonBodies ==
    {Undefined, << >>, [prompt |-> Num(123)], [prompt |-> Txt(0, 0, 0)],
     [prompt |-> Txt(1, 3, MaxPad)], [prompt |-> Txt(0, MaxPromptLength + 1, 0)],
     [prompt |-> Txt(0, 3, 0), hasOwnProperty |-> Str("x")],
     [prompt |-> Txt(0, 3, 0), constructor |-> Str("x")]}

NoUpload == [fields |-> << >>, files |-> << >>]

\* the requests sent to the routes of the router
RouterRequests(h) ==
    IF h \in {"health", "file-types"}
    THEN [client : LimiterRequests, contentType : {Undefined},
          body : {Undefined, << >>}, file : {Undefined}, fileType : {Undefined},
          upload : {NoUpload}]
    ELSE IF h = "text"
    THEN [client : LimiterRequests,
          contentType : {Hdr(<<"application", "/", "json">>)},
          body : JsonBodies, file : {Undefined}, fileType : {Undefined},
          upload : {NoUpload}]
    ELSE [client : {CHOOSE c \in LimiterRequests : c.ip = Undefined},
          contentType : ContentTypes,
          body : {Undefined, << >>}, file : {Undefined}, fileType : {Undefined},
          upload : Uploads]

\* what the limiter holds for the client when the request arrives
LimiterMaps(rq, t) ==
    {<< >>}
        \cup { MapSet(<< >>, ClientId(rq.client), [count |-> n, resetTime |-> r]) :
                 n \in {RouterMaxRequests - 1, RouterMaxRequests},
                 r \in {t, t + RouterTimeWindow} }

RouterInit ==
    /\ nodeEnv \in {"development", "production"}
    /\ handler \in Handlers
    /\ request \in RouterRequests(handler)
    /\ sys \in Systems
    /\ (handler # "health" => sys = [uptime |-> 0, throws |-> FALSE])
    /\ maxRequests = RouterMaxRequests
    /\ timeWindow = RouterTimeWindow
    /\ now = RouterTimeWindow
    /\ requests \in LimiterMaps(request, now)
    /\ (handler \in FileCategories => requests = << >>)
    /\ rlLog = << >>
    /\ pc = "rateLimiter"
    /\ sent = << >>
    /\ upCalls = << >>
    /\ upResults = << >>
    /\ prepCalls = 0
    /\ escaped = Null
    /\ nextError = Null
    /\ trace = << >>

----------------------------------------------------------------------------
(* Requests in flight at the same time on POST /generate-text *)

InFlight == 1..MaxInFlight

\* the Map the limiter invocation for request i reads: the one Map of the
\* closure, shared by all requests
LimiterRead_Private(i) == << >>

LimiterRead(i) == requests

\* the requests sent concurrently
ConcurrentRequests ==
    [client : LimiterRequests, body : {[prompt |-> Txt(1, 3, MaxPad)]}]
        \cup {[client |-> c, body |-> << >>] :
                 c \in {x \in LimiterRequests : x.ip = Undefined}}

\* the outcomes of the upstream call tried with concurrent requests
ConcurrentOutcomes ==
    {o \in UpstreamOutcomes : o.kind = "throw" \/ o.value = Str("AI is...")}

\* the limiter runs for request i: read, check and update in one step
CcRateLimiter(i) ==
    /\ ccPc[i] = "rateLimiter"
    /\ LET out == LimiterOutcome(ccReq[i].client, LimiterRead(i), now)
           k == ClientId(ccReq[i].client)
       IN  /\ requests' = IF out.next = 1 THEN MapSet(requests, k, out.map[k])
                          ELSE requests
           /\ ccLog' = Append(ccLog,
                  [id |-> i, key |-> k, t |-> now, next |-> out.next,
                   resetTime |-> IF out.next = 1 THEN out.map[k].resetTime
                                 ELSE requests[k].resetTime])
           /\ IF out.next = 1
                 THEN /\ ccPc' = [ccPc EXCEPT ![i] = "handling"]
                      /\ UNCHANGED ccSent
                 ELSE /\ ccPc' = [ccPc EXCEPT ![i] = "done"]
                      /\ ccSent' = [ccSent EXCEPT ![i] = Append(@, out.res)]
    /\ UNCHANGED <<ccReq, ccUp, maxRequests, timeWindow, now, rlLog>>
    /\ Frame({"cc", "rl"})

\* sanitizer, prompt validator and handleTextRequest up to its await
CcHandle(i) ==
    /\ ccPc[i] = "handling"
    /\ LET sanitized == SanitizeOutcome(ccReq[i].body).body
           error == PromptError(PromptOf(sanitized))
           validated == [x \in DOMAIN sanitized \cup {"prompt"} |->
                           IF x = "prompt" THEN SanitizedPrompt(PromptOf(sanitized))
                           ELSE sanitized[x]]
       IN  IF error # ""
           THEN /\ ccSent' = [ccSent EXCEPT ![i] =
                                 Append(@, sendValidationError(error, Undefined, now))]
                /\ ccPc' = [ccPc EXCEPT ![i] = "done"]
                /\ UNCHANGED <<ccReq, ccUp>>
           ELSE LET out == TextRequestStart([body |-> validated], nodeEnv, now)
                IN  /\ ccReq' = [ccReq EXCEPT ![i].body = validated]
                    /\ ccSent' = [ccSent EXCEPT ![i] = @ \o out.sent]
                    /\ IF out.call = Null
                          THEN /\ ccPc' = [ccPc EXCEPT ![i] = "done"]
                               /\ UNCHANGED ccUp
                          ELSE /\ ccPc' = [ccPc EXCEPT ![i] = "awaiting"]
                               /\ ccUp' = [ccUp EXCEPT ![i] = Append(@, out.call)]
    /\ UNCHANGED ccLog
    /\ Frame({"cc"})

\* the upstream call of request i settles and its handler runs to the end
CcSettle(i, outcome) ==
    /\ ccPc[i] = "awaiting"
    /\ ccSent' = [ccSent EXCEPT ![i] =
                     Append(@, TextRequestResume(ccReq[i], outcome, nodeEnv, now))]
    /\ ccPc' = [ccPc EXCEPT ![i] = "done"]
    /\ UNCHANGED <<ccReq, ccUp, ccLog>>
    /\ Frame({"cc"})

\* time passes while requests are still to reach the limiter
CcTick ==
    /\ now <= MaxW
    /\ \E i \in InFlight : ccPc[i] = "rateLimiter"
    /\ now' = now + 1
    /\ UNCHANGED <<maxRequests, timeWindow, requests, rlLog>>
    /\ UNCHANGED ccVars
    /\ Frame({"cc", "rl"})

CCInit ==
    /\ maxRequests = MaxInFlight - 1
    /\ timeWindow = MaxW
    /\ requests = << >>
    /\ now = 0
    /\ rlLog = << >>
    /\ ccReq \in [InFlight -> ConcurrentRequests]
    /\ ccPc = [i \in InFlight |-> "rateLimiter"]
    /\ ccSent = [i \in InFlight |-> << >>]
    /\ ccUp = [i \in InFlight |-> << >>]
    /\ ccLog = << >>

\* no concurrent requests when a run does not exercise them
CCIdle ==
    /\ ccReq = << >>
    /\ ccPc = << >>
    /\ ccSent = << >>
    /\ ccUp = << >>
    /\ ccLog = << >>

----------------------------------------------------------------------------
(* utils/logger.js: withPerformanceMonitoring *)

\* how a call settles: it returns (or resolves with) a value, or throws (or
\* rejects with) one
Returns(v) == [kind |-> "return", value |-> v]
Throws(v) == [kind |-> "throw", value |-> v]

\* reading error.message in the catch block: a TypeError on null and undefined
MessageReadThrows(v) == v.type \in {"undefined", "null"}

CannotReadMessage == Error("Cannot read properties of null (reading 'message')",
                           "at withPerformanceMonitoring")

\* how the wrapper settles when the wrapped function settles with fnOutcome
Monitored(fnOutcome) ==
    IF fnOutcome.kind = "return" THEN fnOutcome
    ELSE IF MessageReadThrows(fnOutcome.value) THEN Throws(CannotReadMessage)
    ELSE fnOutcome

\* how callGeminiAPI settles when the upstream settles with outcome
CallGeminiOutcome(outcome) ==
    IF outcome.kind = "throw" THEN Throws(GeminiError(outcome.error))
    ELSE Returns(outcome.value)

\* one call of the function withPerformanceMonitoring(fn, name) returns
MonitoredCall ==
    /\ pmPc = "start"
    /\ pmCalls' = Append(pmCalls, [args |-> pmArgs, receiver |-> pmThis])
    /\ pmResult' = Monitored(pmFn)
    /\ pmPc' = "done"
    /\ UNCHANGED <<pmFn, pmArgs, pmThis>>
    /\ Frame({"pm"})

\* the values passed, returned and thrown
MonitorValues == {Undefined, Null, Num(6), Str("success result"), Str("")}

MonitorErrors ==
    {Undefined, Null, Str("failed"), Error("Async function failed", "at fn")}
        \cup {GeminiError(o.error) : o \in {x \in UpstreamOutcomes : x.kind = "throw"}}

MonitorArgs ==
    {<< >>} \cup {<<a>> : a \in MonitorValues}
            \cup {<<a, b>> : a \in {Str("success result")}, b \in MonitorValues}

PMInit ==
    /\ pmFn \in {Returns(v) : v \in MonitorValues} \cup {Throws(e) : e \in MonitorErrors}
    /\ pmArgs \in MonitorArgs
    /\ pmThis \in {Undefined, Obj}
    /\ pmCalls = << >>
    /\ pmResult = Null
    /\ pmPc = "start"

\* the wrapper when a run does not exercise it
PMIdle ==
    /\ pmFn = Null
    /\ pmArgs = << >>
    /\ pmThis = Undefined
    /\ pmCalls = << >>
    /\ pmResult = Null
    /\ pmPc = "idle"

----------------------------------------------------------------------------
(* Claims about the controller *)

\* the handler has run to its end
Done == pc = "done"

\* the request carries a prompt the handler accepts: a string that is not
\* empty once trimmed
HasValidPrompt ==
    /\ IsObjectBody(request.body)
    /\ "prompt" \in DOMAIN request.body
    /\ request.body.prompt.type = "string"
    /\ request.body.prompt.core > 0

\* the one response sent is an error envelope with this status and message
AnsweredWithError(statusCode, message) ==
    /\ Len(sent) = 1
    /\ sent[1].statusCode = Num(statusCode)
    /\ sent[1].json.status = FALSE
    /\ sent[1].json.code = Num(statusCode)
    /\ sent[1].json.message = message

\* the one response sent is a 200 success envelope with this message
AnsweredWithSuccess(message) ==
    /\ Len(sent) = 1
    /\ sent[1].statusCode = Num(200)
    /\ sent[1].json.status = TRUE
    /\ sent[1].json.code = Num(200)
    /\ sent[1].json.message = message

\* C14: in the text flow with a valid prompt the upstream generateText is
\* called with the trimmed prompt; when it returns text T the response is a
\* 200 success envelope with data = T and message "Content generated
\* successfully", and when it fails the response is a 500 internal-error
\* envelope whose message is exactly "Failed to generate content".
C14_TextFlow ==
    (handler = "text" /\ HasValidPrompt /\ pc # "controller") =>
        /\ Len(upCalls) = 1
        /\ upCalls[1].fn = "generateText"
        /\ upCalls[1].prompt = Txt(0, request.body.prompt.core, 0)
        /\ (Done /\ upResults[1].kind = "return"
                 /\ upResults[1].value.type = "string") =>
              /\ AnsweredWithSuccess("Content generated successfully")
              /\ sent[1].json.data = upResults[1].value
        /\ (Done /\ upResults[1].kind = "throw") =>
              AnsweredWithError(500, "Failed to generate content")

\* text flow, padded prompt, both outcomes of the upstream call seen
C14_Witness ==
    /\ handler = "text"
    /\ HasValidPrompt
    /\ request.body.prompt.lead > 0
    /\ request.body.prompt.trail > 0
    /\ Done
    /\ upResults = <<[kind |-> "return", value |-> Str("AI is...")]>>
    /\ AnsweredWithSuccess("Content generated successfully")

\* the file flow reached validateFile, which reports the file invalid
FileReportedInvalid ==
    /\ handler \in FileCategories
    /\ HasValidPrompt
    /\ pc # "controller"
    /\ ~validateFile(request.file, Str(handler)).isValid

\* C15: in the file flow, whenever validateFile reports the file invalid the
\* handler returns a 400 validation-error envelope with the validator's
\* message, and neither prepareFileForAPI nor the upstream is called.
C15_InvalidFileStopsFlow ==
    FileReportedInvalid =>
        /\ Done
        /\ AnsweredWithError(400, validateFile(request.file, Str(handler)).error.str)
        /\ prepCalls = 0
        /\ upCalls = << >>

\* an oversized but otherwise complete image is turned away with a 400
C15_Witness ==
    /\ FileReportedInvalid
    /\ handler = "image"
    /\ request.file # Null
    /\ request.file.mimetype = Str("image/jpeg")
    /\ request.file.buffer # Undefined
    /\ AnsweredWithError(400, "File size exceeds 10MB limit")

\* the file, its buffer or its MIME type is missing
FileIncomplete(f) ==
    \/ f = Null
    \/ f.buffer = Undefined
    \/ f.mimetype = Undefined

\* C16: prepareFileForAPI throws when the file, its buffer or its MIME type
\* is missing; in the file flow the exception is caught once and answered
\* with a 500 "Failed to generate content from <category>", the upstream is
\* not called and no exception leaves the handler.
C16_PrepareFailureCaught ==
    /\ (handler \in FileCategories /\ FileIncomplete(request.file)) =>
          /\ prepareFileForAPI(request.file).type = "error"
          /\ prepareFileForAPI(request.file).message
               = "Invalid file object - missing buffer or mimetype"
    /\ (handler \in FileCategories /\ FileIncomplete(request.file)
          /\ prepCalls > 0) =>
          /\ Done
          /\ prepCalls = 1
          /\ AnsweredWithError(500, "Failed to generate content from " \o handler)
          /\ upCalls = << >>
          /\ escaped = Null

\* a file that passes validateFile but has no buffer reaches prepareFileForAPI
C16_Witness ==
    /\ handler = "document"
    /\ request.file # Null
    /\ request.file.buffer = Undefined
    /\ prepCalls = 1
    /\ AnsweredWithError(500, "Failed to generate content from document")

\* C20: healthCheck lets no exception escape: when gathering succeeds it
\* sends a 200 success envelope with data.status "healthy" and data.uptime
\* the process uptime, and when gathering throws it sends a 500
\* internal-error envelope with message "Health check failed".
C20_HealthNeverThrows ==
    (handler = "health" /\ Done) =>
        /\ escaped = Null
        /\ ~sys.throws =>
              /\ AnsweredWithSuccess("Service is healthy")
              /\ sent[1].json.data.status = "healthy"
              /\ sent[1].json.data.uptime = sys.uptime
        /\ sys.throws => AnsweredWithError(500, "Health check failed")

\* a health check whose gathering threw was answered
C20_Witness ==
    /\ handler = "health"
    /\ Done
    /\ sys.throws
    /\ AnsweredWithError(500, "Health check failed")

\* C21: GET /file-types answers with a 200 success envelope whose data is a
\* list with one entry per registered category (image, document, audio,
\* video), each giving type, name, maxSize, maxSizeMB = round(maxSize / 2^20),
\* allowedMimeTypes and fieldName; the 500 "Failed to retrieve file types
\* information" is produced only when building the list fails.
C21_FileTypesListed ==
    (handler = "file-types" /\ Done) =>
        /\ AnsweredWithSuccess("Supported file types retrieved successfully")
        /\ Len(sent[1].json.data) = 4
        /\ \A c \in DOMAIN FILE_TYPES :
              \E i \in 1..4 :
                 LET entry == sent[1].json.data[i]
                 IN  /\ entry.name = FILE_TYPES[c].name
                     /\ entry.type = FILE_TYPES[c].name
                     /\ entry.maxSize = FILE_TYPES[c].maxSize
                     /\ entry.maxSizeMB * 1024 * 1024 = FILE_TYPES[c].maxSize
                     /\ entry.allowedMimeTypes = FILE_TYPES[c].allowedMimeTypes
                     /\ entry.fieldName = "file"

\* the prompt of the request is absent, no string, or empty once trimmed
PromptMissingOrMalformed ==
    \/ ~IsObjectBody(request.body)
    \/ "prompt" \notin DOMAIN request.body
    \/ request.body.prompt.type # "string"
    \/ request.body.prompt.core = 0

\* C22: a missing or malformed prompt (absent, non-string, or empty after
\* trim) is always answered with a 4xx validation error and never with a 500,
\* also by the prompt check inside handleTextRequest and handleFileRequest.
C22_BadPromptIs4xx ==
    (/\ handler \in {"text"} \cup FileCategories
     /\ Done
     /\ PromptMissingOrMalformed) =>
        /\ Len(sent) = 1
        /\ sent[1].statusCode.num >= 400
        /\ sent[1].statusCode.num <= 499
        /\ sent[1].json.status = FALSE

\* C23: the upstream is invoked at most once per request, only after all
\* validation (and, in the file flow, encoding) has succeeded, and an
\* upstream failure leads directly to the 500 response without a second call.
C23_NoRetries ==
    /\ Len(upCalls) <= 1
    /\ Len(upResults) <= Len(upCalls)
    /\ Len(upCalls) = 1 =>
          /\ handler \in {"text"} \cup FileCategories
          /\ HasValidPrompt
          /\ handler = "text" => upCalls[1].fn = "generateText" /\ prepCalls = 0
          /\ handler \in FileCategories =>
                /\ upCalls[1].fn = "generateFromFile"
                /\ validateFile(request.file, Str(handler)).isValid
                /\ prepCalls = 1
                /\ ~FileIncomplete(request.file)
                /\ upCalls[1].fileData.mimeType = request.file.mimetype
                /\ upCalls[1].fileData.data.encoding = "base64"
    /\ (Len(upResults) = 1 /\ upResults[1].kind = "throw") =>
          /\ Done
          /\ Len(sent) = 1
          /\ sent[1].statusCode = Num(500)

\* the upstream call of a file request failed and was answered at once
C23_Witness ==
    /\ handler = "audio"
    /\ Len(upCalls) = 1
    /\ Len(upResults) = 1
    /\ upResults[1].kind = "throw"
    /\ Done
    /\ AnsweredWithError(500, "Failed to generate content from audio")

\* C28: every invocation of handleTextRequest or handleFileRequest, for any
\* body and file and any upstream outcome, sends exactly one response
\* envelope (success, 400 or 500) and lets no exception escape; a success
\* envelope is sent only after the upstream returned a string.
C28_OneResponsePerInvocation ==
    (handler \in {"text"} \cup FileCategories) =>
        /\ Len(sent) <= 1
        /\ escaped = Null
        /\ Done =>
              /\ Len(sent) = 1
              /\ sent[1].statusCode \in {Num(200), Num(400), Num(500)}
              /\ sent[1].json.code = sent[1].statusCode
              /\ sent[1].json.status = (sent[1].statusCode = Num(200))
              /\ sent[1].statusCode = Num(200) =>
                    /\ Len(upResults) = 1
                    /\ upResults[1].kind = "return"
                    /\ upResults[1].value.type = "string"

----------------------------------------------------------------------------
(* Claims about the router *)

\* the middleware has run for the request
Ran(stage) == \E i \in 1..Len(trace) : trace[i] = stage

\* a ran, and before b did
RanBefore(a, b) ==
    \E i \in 1..Len(trace) :
        /\ trace[i] = a
        /\ \A j \in 1..Len(trace) : trace[j] = b => i < j

\* the header is present and has multipart/form-data somewhere in it
HeaderNamesMultipartFormData ==
    /\ request.contentType # Undefined
    /\ \E i \in 1..Len(request.contentType.toks) :
          /\ i + 2 <= Len(request.contentType.toks)
          /\ request.contentType.toks[i] = "multipart"
          /\ request.contentType.toks[i + 1] = "/"
          /\ request.contentType.toks[i + 2] = "form-data"

\* the content-type gate called next: the upload parser is next or has run
GateCalledNext == pc = "upload" \/ Ran("upload")

\* C11: a POST to /generate-from-image through the router with a valid
\* prompt and a file declared image/jpeg that is larger than the 10MB image
\* ceiling is answered with a 400 whose message contains "exceeds 10MB
\* limit", and the upstream is never called.
C11_OversizedImageMessage ==
    (/\ handler = "image"
     /\ Done
     /\ Ran("upload")
     /\ request.contentType = Hdr(<<"multipart", "/", "form-data", "; boundary=x">>)
     /\ request.upload.fields = [prompt |-> Txt(1, 3, MaxPad)]
     /\ Len(request.upload.files) = 1
     /\ request.upload.files[1].fieldname = "file"
     /\ request.upload.files[1].mimetype = "image/jpeg"
     /\ request.upload.files[1].size > 10 * 1024 * 1024) =>
        /\ Len(sent) = 1
        /\ sent[1].statusCode = Num(400)
        /\ sent[1].json.message \in {"File size exceeds 10MB limit"}
        /\ upCalls = << >>

\* C12: validateContentType calls next if and only if the Content-Type
\* header is present and contains "multipart/form-data" as a substring;
\* otherwise it sends a 400 with "Content-Type must be multipart/form-data
\* for file uploads" and does not call next; on every file route the gate
\* runs before the upload is parsed.
C12_ContentTypeGate ==
    /\ (handler \in FileCategories /\ Ran("validateContentType")) =>
          /\ GateCalledNext <=> HeaderNamesMultipartFormData
          /\ ~HeaderNamesMultipartFormData =>
                /\ Done
                /\ AnsweredWithError(400,
                      "Content-Type must be multipart/form-data for file uploads")
    /\ (handler \in FileCategories /\ GateCalledNext) =>
          RanBefore("validateContentType", "upload")

\* a header with a boundary parameter went through the gate to the parser
C12_Witness ==
    /\ handler = "video"
    /\ request.contentType = Hdr(<<"multipart", "/", "form-data", "; boundary=x">>)
    /\ Ran("validateContentType")
    /\ Ran("upload")
    /\ sent = << >>

\* C18: every JSON response emitted on any route of the router carries a
\* timestamp together with status, code and message, the responses for
\* upload errors and of the global error handler included.
C18_EveryResponseTimestamped ==
    \A i \in 1..Len(sent) :
        {"status", "code", "message", "timestamp"} \subseteq DOMAIN sent[i].json

\* the stages a request to route h goes through, in order
PipelineOrder(h) ==
    <<"rateLimiter", "sanitizeRequestBody">>
        \o (IF h \in FileCategories THEN <<"validateContentType", "upload">>
            ELSE << >>)
        \o (IF h \in {"text"} \cup FileCategories THEN <<"validatePrompt">>
            ELSE << >>)
        \o (IF h \in FileCategories THEN <<"validateFileUpload">> ELSE << >>)
        \o <<"controller">>

PipelineStages ==
    {"rateLimiter", "sanitizeRequestBody", "validateContentType", "upload",
     "validatePrompt", "validateFileUpload", "controller"}

\* the stages of the pipeline that have run, in order
StagesRun == SelectSeq(trace, LAMBDA x : x \in PipelineStages)

IsPrefix(a, b) == Len(a) <= Len(b) /\ a = SubSeq(b, 1, Len(a))

\* the limiter entry of the request's client in a map (count 0 when none or
\* when its window is over at time t)
QuotaUsed(map, k, t) ==
    IF k \notin DOMAIN map THEN 0
    ELSE IF t > map[k].resetTime THEN 0
    ELSE map[k].count

\* C24: every request passes the stages in the fixed order rate limiter,
\* sanitizer, (file routes: content-type gate, upload parsing), prompt
\* validator, (file routes: file-presence check), controller, upstream; once
\* a stage has answered no later stage runs, so a rate-limited or invalid
\* request never reaches the upstream; every request the limiter admits
\* uses one unit of its client's quota, whatever happens to it later.
C24_PipelineOrder ==
    /\ IsPrefix(StagesRun, PipelineOrder(handler))
    /\ sent # << >> => (Done /\ Len(sent) = 1)
    /\ \A i \in 1..Len(trace) :
          trace[i] \in {"handleMulterError", "errorHandler"} =>
              \A j \in (i + 1)..Len(trace) : trace[j] \notin PipelineStages
    /\ upCalls # << >> =>
          /\ StagesRun = PipelineOrder(handler)
          /\ ~Ran("handleMulterError")
          /\ ~Ran("errorHandler")
    /\ Ran("rateLimiter") =>
          LET k == ExpectedKey(request.client)
              used == QuotaUsed(rlLog[1].before, k, now)
          IN  /\ Len(rlLog) = 1
              /\ requests = rlLog[1].after
              /\ IF used < RouterMaxRequests
                    THEN /\ requests[k].count = used + 1
                         /\ (pc # "done" \/ Len(trace) > 1)
                    ELSE /\ requests = rlLog[1].before
                         /\ trace = <<"rateLimiter">>
                         /\ Done
                         /\ Len(sent) = 1
                         /\ upCalls = << >>

\* an upload that went through every stage to the upstream and used quota
C24_Witness ==
    /\ handler = "image"
    /\ StagesRun = PipelineOrder("image")
    /\ Len(upCalls) = 1
    /\ Len(upResults) = 1
    /\ Done
    /\ requests[ExpectedKey(request.client)].count = 1

\* the body has none of the dangerous keys and its strings are trimmed
BodySanitized(b) ==
    IsObjectBody(b) =>
        /\ DOMAIN b \cap {"__proto__", "constructor", "prototype"} = {}
        /\ \A k \in DOMAIN b :
              (b[k].type = "string" /\ "lead" \in DOMAIN b[k]) =>
                  (b[k].lead = 0 /\ b[k].trail = 0)

\* C25: on every route, the four multipart file routes included, the body
\* seen by the prompt validator and the controller has been sanitized: the
\* dangerous keys are stripped and every top-level string field is trimmed
\* before prompt validation runs.
C25_BodySanitizedBeforeValidation ==
    pc \in {"validatePrompt", "validateFileUpload", "controller"} =>
        BodySanitized(request.body)

\* the limiter invocations admitted for key k in the window ending at r
AdmittedInWindow(k, r) ==
    {j \in 1..Len(ccLog) :
        ccLog[j].key = k /\ ccLog[j].next = 1 /\ ccLog[j].resetTime = r}

\* no increment is lost and no window admits more than maxRequests
QuotaKept ==
    /\ \A k \in DOMAIN requests :
          requests[k].count = Cardinality(AdmittedInWindow(k, requests[k].resetTime))
    /\ \A j \in 1..Len(ccLog) :
          Cardinality(AdmittedInWindow(ccLog[j].key, ccLog[j].resetTime)) <= maxRequests

\* what belongs to request i alone
Local(i) == <<ccReq[i], ccPc[i], ccSent[i], ccUp[i]>>

\* request i was admitted by the limiter
Admitted(i) == \E j \in 1..Len(ccLog) : ccLog[j].id = i /\ ccLog[j].next = 1

\* the answer to a finished, admitted request follows from that request alone
OwnAnswer(i) ==
    (ccPc[i] = "done" /\ Admitted(i)) =>
        /\ Len(ccSent[i]) = 1
        /\ IF "prompt" \in DOMAIN ccReq[i].body
              THEN /\ Len(ccUp[i]) = 1
                   /\ ccUp[i][1].prompt = ccReq[i].body.prompt
                   /\ ccSent[i][1].statusCode \in {Num(200), Num(500)}
                   /\ ccSent[i][1].statusCode = Num(200) =>
                         ccSent[i][1].json.data = Str("AI is...")
              ELSE /\ ccUp[i] = << >>
                   /\ ccSent[i][1].statusCode = Num(400)
                   /\ ccSent[i][1].json.message
                         = "Prompt is required in the request body"

\* C26: under any interleaving of requests in flight each limiter invocation
\* reads, checks and updates its key's entry in one step, so no increment is
\* lost and no window admits more than maxRequests requests of a key; apart
\* from the limiter map, handling one request changes nothing another
\* request observes.
C26_LimiterAtomicUnderInterleaving ==
    /\ [](QuotaKept /\ \A i \in InFlight : OwnAnswer(i))
    /\ [][\A i, j \in InFlight :
             (i # j /\ Local(i)' # Local(i)) => Local(j)' = Local(j)]_vars

\* one request waits for the upstream while another of the same client,
\* arriving meanwhile, is turned away by the limiter
C26_Witness ==
    \E i, j \in InFlight :
        /\ i # j
        /\ ccPc[i] = "awaiting"
        /\ ccPc[j] = "done"
        /\ \E a, b \in 1..Len(ccLog) :
              /\ a < b
              /\ ccLog[a].id = i /\ ccLog[a].next = 1
              /\ ccLog[b].id = j /\ ccLog[b].next = 0
              /\ ccLog[a].key = ccLog[b].key

\* C27: withPerformanceMonitoring(fn, name) calls fn exactly once with the
\* same arguments and receiver, returns exactly fn's result when fn succeeds
\* and rethrows the same error when fn throws or rejects, so a handler using
\* the monitored upstream call answers as one calling the upstream directly.
C27_MonitoringTransparent ==
    /\ pmPc = "done" =>
          /\ Len(pmCalls) = 1
          /\ pmCalls[1].args = pmArgs
          /\ pmCalls[1].receiver = pmThis
          /\ pmResult.kind = pmFn.kind
          /\ pmResult.value = pmFn.value
    /\ \A o \in UpstreamOutcomes :
          Monitored(CallGeminiOutcome(o)) = CallGeminiOutcome(o)

\* C29: through the router the controller's own prompt check never fails:
\* a body that has passed validatePrompt has a non-empty, trimmed string
\* prompt, so the "Valid prompt is required" branch is unreachable, and the
\* file-presence middleware keeps a missing file from the controller's
\* validateFile.
C29_ControllerChecksNeverFail ==
    /\ (handler \in {"text"} \cup FileCategories /\ pc = "controller") =>
          /\ HasValidPrompt
          /\ request.body.prompt.lead = 0
          /\ request.body.prompt.trail = 0
          /\ ~PromptMissing(ControllerPrompt(request))
          /\ handler \in FileCategories =>
                /\ request.file # Undefined
                /\ request.file # Null
                /\ validateFile(request.file, Str(handler)).error
                      # Str(handler \o " file is required")
    /\ \A i \in 1..Len(sent) :
          "errors" \in DOMAIN sent[i].json =>
              /\ sent[i].json.errors # Str("Valid prompt is required")
              /\ (sent[i].json.errors.type = "object" =>
                    sent[i].json.errors.message # "Valid prompt is required")

\* a padded prompt sent with an upload has reached the controller
C29_Witness ==
    /\ handler = "video"
    /\ pc = "controller"
    /\ request.upload.fields = [prompt |-> Txt(1, 3, MaxPad)]
    /\ request.body.prompt = Txt(0, 3, 0)
    /\ request.file # Undefined

----------------------------------------------------------------------------
(* services/geminiService.js: the conversation history of the session *)

Conversations == 1..MaxConversations

\* o[k] as JavaScript reads it: undefined when o has no such property
Prop(o, k) == IF o.type = "object" /\ k \in DOMAIN o THEN o[k] ELSE Undefined

\* the entry initializePersonality pushes
Greeting == [role |-> "model", parts |-> <<[text |-> Str("Halo! Saya Neng AI")]>>]

\* initializePersonality(): what it leaves in the history and in the flag
initializePersonality(history, flag) ==
    IF ~flag /\ Len(history) = 0
    THEN [history |-> <<Greeting>>, flag |-> TRUE]
    ELSE [history |-> history, flag |-> flag]

\* message.content.file is read on a content that is no string: a TypeError
\* when the content is null or undefined
ContentThrows(message) == message.content.type \in {"undefined", "null"}

\* the historyEntry the forEach callback builds for one message
historyEntry(message) ==
    LET content == message.content
        textPart == IF Truthy(Prop(content, "text"))
                    THEN <<[text |-> Prop(content, "text")]>>
                    ELSE << >>
    IN  [role |-> IF message.role = Str("user") THEN "user" ELSE "model",
         parts |-> IF content.type = "string" THEN <<[text |-> content]>>
                   ELSE IF Truthy(Prop(content, "file"))
                        THEN textPart \o
                             <<[inlineData |->
                                  [mimeType |-> Prop(Prop(content, "file"), "mimeType"),
                                   data |-> Prop(Prop(content, "file"), "data")]]>>
                        ELSE textPart]

IsArray(payload) == payload.type = "array"

\* the messages payload.forEach gets through before its callback throws
Reached(payload) ==
    LET throwing == {i \in 1..Len(payload.items) : ContentThrows(payload.items[i])}
    IN  IF throwing = {} THEN Len(payload.items)
        ELSE (CHOOSE i \in throwing : \A j \in throwing : i <= j) - 1

ForEachThrows(payload) == ~IsArray(payload) \/ Reached(payload) < Len(payload.items)

Pushed(payload) ==
    IF IsArray(payload)
    THEN [i \in 1..Reached(payload) |-> historyEntry(payload.items[i])]
    ELSE << >>

CannotReadForEach == Error("Cannot read properties of undefined (reading 'forEach')",
                           "at conversation")

CannotReadFile == Error("Cannot read properties of null (reading 'file')",
                        "at conversation")

CannotReadText == Error("Cannot read properties of undefined (reading 'text')",
                        "at conversation")

CannotReadErrorMessage == Error("Cannot read properties of undefined (reading 'message')",
                                "at conversation")

\* conversation(payload) up to its await: the greeting, the payload's entries,
\* then the upstream call; an exception of this part leaves through the outer
\* catch, which rethrows it
ConversationStart(i) ==
    /\ cvPc[i] = "start"
    /\ LET payload == cvPayload[i]
           greeted == initializePersonality(conversationHistory, isPersonalitySet)
       IN  /\ conversationHistory' = greeted.history \o Pushed(payload)
           /\ isPersonalitySet' = greeted.flag
           /\ IF ForEachThrows(payload)
              THEN /\ cvPc' = [cvPc EXCEPT ![i] = "done"]
                   /\ cvResult' = [cvResult EXCEPT ![i] =
                          Throws(IF IsArray(payload) THEN CannotReadFile
                                 ELSE CannotReadForEach)]
              ELSE /\ cvPc' = [cvPc EXCEPT ![i] = "awaiting"]
                   /\ UNCHANGED cvResult
    /\ UNCHANGED <<cvPayload, cvUp>>
    /\ Frame({"cv"})

\* the object ai.models.generateContent resolves with, or undefined after the
\* inner catch swallowed its rejection
ResponseOf(outcome) == IF outcome.kind = "return" THEN outcome.value ELSE Undefined

\* conversation(payload) from the settlement of generateContent on
ConversationSettles(i, outcome) ==
    /\ cvPc[i] = "awaiting"
    /\ cvUp' = [cvUp EXCEPT ![i] = outcome]
    /\ cvPc' = [cvPc EXCEPT ![i] = "done"]
    /\ LET response == ResponseOf(outcome)
       IN  IF outcome.kind = "throw" /\ MessageReadThrows(outcome.value)
           THEN /\ cvResult' = [cvResult EXCEPT ![i] = Throws(CannotReadErrorMessage)]
                /\ UNCHANGED conversationHistory
           ELSE IF response.type \in {"undefined", "null"}
           THEN /\ cvResult' = [cvResult EXCEPT ![i] = Throws(CannotReadText)]
                /\ UNCHANGED conversationHistory
           ELSE /\ conversationHistory' =
                      Append(conversationHistory,
                             [role |-> "model",
                              parts |-> <<[text |-> Prop(response, "text")]>>])
                /\ cvResult' = [cvResult EXCEPT ![i] = Returns(Prop(response, "text"))]
    /\ UNCHANGED <<isPersonalitySet, cvPayload>>
    /\ Frame({"cv"})

clearConversationHistory ==
    /\ conversationHistory' = << >>
    /\ isPersonalitySet' = FALSE
    /\ UNCHANGED <<cvPayload, cvPc, cvUp, cvResult>>
    /\ Frame({"cv"})

Array(items) == [type |-> "array", items |-> items]

UserSays == [role |-> Str("user"), content |-> Str("Halo")]

ModelSaid == [role |-> Str("assistant"),
              content |-> [type |-> "object", text |-> Str("Muhun")]]

UserShows == [role |-> Str("user"),
              content |-> [type |-> "object", text |-> Str("Ieu naon?"),
                           file |-> [type |-> "object",
                                     mimeType |-> Str("image/png"),
                                     data |-> Str("iVBORw0KGgo=")]]]

NoContent == [role |-> Str("user"), content |-> Null]

Payloads ==
    {Undefined, Array(<< >>), Array(<<UserSays>>), Array(<<ModelSaid, UserShows>>),
     Array(<<UserSays, NoContent, UserSays>>)}

GenerateContentOutcomes ==
    {Returns([type |-> "object", text |-> Str("Wilujeng sumping!")]),
     Returns(Undefined),
     Throws(Error("429 quota exceeded", "at generateContent")),
     Throws(Undefined)}

CVInit ==
    /\ conversationHistory = << >>
    /\ isPersonalitySet = FALSE
    /\ cvPayload \in [Conversations -> Payloads]
    /\ cvPc = [i \in Conversations |-> "start"]
    /\ cvUp = [i \in Conversations |-> Null]
    /\ cvResult = [i \in Conversations |-> Null]

CVIdle ==
    /\ conversationHistory = << >>
    /\ isPersonalitySet = FALSE
    /\ cvPayload = << >>
    /\ cvPc = << >>
    /\ cvUp = << >>
    /\ cvResult = << >>

\* C30: conversation inserts the greeting exactly when the history is empty
\* and the flag unset, then appends one entry per payload message in order; the
\* model reply is appended only after a successful upstream call; after a failed
\* upstream call the caller gets an error and the entries stay;
\* clearConversationHistory leaves the history empty and the flag unset; so the
\* flag is set if and only if the history is non-empty.
C30_ConversationHistoryState ==
    /\ [](isPersonalitySet <=> conversationHistory # << >>)
    /\ [][/\ \A i \in Conversations :
               /\ (cvPc[i] = "start" /\ cvPc'[i] # "start" /\ IsArray(cvPayload[i])
                      /\ ~ForEachThrows(cvPayload[i])) =>
                     LET g == IF conversationHistory = << >> /\ ~isPersonalitySet
                              THEN <<Greeting>> ELSE << >>
                         items == cvPayload[i].items
                     IN  /\ Len(conversationHistory') =
                                Len(conversationHistory) + Len(g) + Len(items)
                         /\ SubSeq(conversationHistory', 1,
                                   Len(conversationHistory) + Len(g))
                               = conversationHistory \o g
                         /\ \A j \in 1..Len(items) :
                               conversationHistory'[Len(conversationHistory) + Len(g) + j]
                                  = historyEntry(items[j])
               /\ (cvPc[i] = "awaiting" /\ cvPc'[i] = "done") =>
                     IF cvUp'[i].kind = "return" /\ cvUp'[i].value.type = "object"
                     THEN /\ cvResult'[i].kind = "return"
                          /\ conversationHistory' =
                                Append(conversationHistory,
                                       [role |-> "model",
                                        parts |-> <<[text |-> cvResult'[i].value]>>])
                     ELSE /\ cvResult'[i].kind = "throw"
                          /\ conversationHistory' = conversationHistory
          /\ cvPc' = cvPc => (conversationHistory' = << >> /\ ~isPersonalitySet')
         ]_vars

\* the components a run of the groups in S does not exercise
IdleBut(S) ==
    /\ IF "rl" \in S THEN TRUE ELSE RLIdle
    /\ IF "vp" \in S THEN TRUE ELSE VPIdle
    /\ IF "vf" \in S THEN TRUE ELSE VFIdle
    /\ IF "env" \in S THEN TRUE ELSE EnvIdle
    /\ IF "rh" \in S THEN TRUE ELSE RHIdle
    /\ IF "sb" \in S THEN TRUE ELSE SBIdle
    /\ IF "rq" \in S THEN TRUE ELSE RQIdle
    /\ IF "cc" \in S THEN TRUE ELSE CCIdle
    /\ IF "pm" \in S THEN TRUE ELSE PMIdle
    /\ IF "cv" \in S THEN TRUE ELSE CVIdle

Init == RLInit /\ IdleBut({"rl"})

Next == RLNext

Spec == Init /\ [][Next]_vars

InitPrompt == VPInit /\ IdleBut({"vp"})

NextPrompt == validatePrompt

SpecPrompt == InitPrompt /\ [][NextPrompt]_vars

InitFile == VFInit /\ IdleBut({"vf"})

NextFile == ValidateFileCall

SpecFile == InitFile /\ [][NextFile]_vars

InitResponse == RHInit /\ IdleBut({"rh", "env"})

NextResponse == SendResponse

SpecResponse == InitResponse /\ [][NextResponse]_vars

InitSanitize == SBInit /\ IdleBut({"sb"})

NextSanitize == sanitizeRequestBody

SpecSanitize == InitSanitize /\ [][NextSanitize]_vars

InitController == ControllerInit /\ IdleBut({"rq", "env"})

NextController ==
    \/ HandlerStart
    \/ \E outcome \in UpstreamOutcomes : UpstreamSettles(outcome)

SpecController == InitController /\ [][NextController]_vars

InitRouter == RouterInit /\ IdleBut({"rq", "rl", "env"})

NextRouter ==
    \/ RouterRateLimiter
    \/ RouterSanitize
    \/ RouterValidateContentType
    \/ RouterUpload
    \/ RouterHandleMulterError
    \/ RouterValidatePrompt
    \/ RouterValidateFileUpload
    \/ RouterErrorHandler
    \/ HandlerStart
    \/ \E outcome \in UpstreamOutcomes : UpstreamSettles(outcome)

SpecRouter == InitRouter /\ [][NextRouter]_vars

InitConcurrent == CCInit /\ IdleBut({"cc", "rl"})

NextConcurrent ==
    \/ CcTick
    \/ \E i \in InFlight :
          \/ CcRateLimiter(i)
          \/ CcHandle(i)
          \/ \E outcome \in ConcurrentOutcomes : CcSettle(i, outcome)

SpecConcurrent == InitConcurrent /\ [][NextConcurrent]_vars

InitMonitor == PMInit /\ IdleBut({"pm"})

NextMonitor == MonitoredCall

SpecMonitor == InitMonitor /\ [][NextMonitor]_vars

InitConversation == CVInit /\ IdleBut({"cv"})

NextConversation ==
    \/ clearConversationHistory
    \/ \E i \in Conversations :
          \/ ConversationStart(i)
          \/ \E outcome \in GenerateContentOutcomes : ConversationSettles(i, outcome)

SpecConversation == InitConversation /\ [][NextConversation]_vars

====
